---- MODULE Spec2Model ----
(***************************************************************************)
(* Feishu streaming controller (extensions/feishu/src/                     *)
(* streaming-controller.ts, createFeishuStreamingController): the session  *)
(* state of one controller, its facade operations, the throttle timer, the *)
(* CardKit mutation queue and the transport calls in flight.               *)
(*                                                                         *)
(* JavaScript runs one callback at a time, so one action of the model is   *)
(* the code a control flow runs from one suspension (a transport call, a   *)
(* sleep, a wait for the mutation queue or for another promise) to the     *)
(* next one.  A control flow is a "thread" of the model.                   *)
(***************************************************************************)
EXTENDS Integers, Sequences, FiniteSets, TLC

(***************************************************************************)
(* Program constants.                                                      *)
(***************************************************************************)
STREAM_UPDATE_MAX_RETRIES == 3
STREAM_SEQUENCE_MAX_RETRIES == 8
CLEANUP_MAX_RETRIES == 5
\* 0.85, kept as the exact fraction SIMILARITY_NUM / SIMILARITY_DEN so that
\* the ratio tests are integer comparisons (the quotients of the code are
\* quotients of two small integers, which IEEE division rounds exactly as it
\* rounds the literal 0.85, so the comparisons agree).
SIMILARITY_NUM == 17
SIMILARITY_DEN == 20
STREAM_DIVERGENCE_CONFIRMATION_COUNT == 2
STREAM_ROTATION_MIN_LENGTH == 32
STREAM_NOISE_TOKEN_MAX_LENGTH == 6

(***************************************************************************)
(* Bounds of the model.                                                    *)
(***************************************************************************)
MaxPartials == 4    \* queuePartialReply calls in one session
MaxFacadePartials == 3    \* the same, where every facade operation runs too
MaxRotationPartials == 6    \* the same, where two rotations are to happen
MaxWindowPartials == 3      \* the same, in a session of prefix-growing snapshots
MaxClosePartials == 2       \* the same, where closeStreamingIfNeeded is called twice
MaxCloseCalls == 2          \* calls of the two operations in such a session
MaxRun == 20                \* a's at the head of an argument of isNonRegressiveStreamUpdate
MaxSuffix == 2              \* other characters at its end
MaxFailures == 1    \* transport calls that fail in one session
MaxRetryFailures == 24  \* transport calls that fail where retries are exhausted
MaxRetryPartials == 3     \* queuePartialReply calls in such a session
MaxCalls == 1       \* calls of the other facade operations in one session
NumThreads == 2     \* control flows that can be suspended at the same time

(***************************************************************************)
(* Texts.  A text is a sequence of characters.                             *)
(***************************************************************************)
Rep(c, n) == [i \in 1..n |-> c]

WhiteSpace == {" "}
\* the markdown control character class of normalizeComparisonText and of
\* isShortMarkdownNoiseToken
\* (the backquote is written "backquote": the lexer takes no backquote in a string)
MarkdownControl ==
  {"*", "_", "backquote", "~", "|", "#", ">", "-", ":", ".", "(", ")"}

\* s without its longest suffix of characters of class
RECURSIVE StripTrailing(_, _)
StripTrailing(s, class) ==
  IF s # <<>> /\ s[Len(s)] \in class
  THEN StripTrailing(SubSeq(s, 1, Len(s) - 1), class)
  ELSE s

RECURSIVE StripLeading(_, _)
StripLeading(s, class) ==
  IF s # <<>> /\ s[1] \in class
  THEN StripLeading(SubSeq(s, 2, Len(s)), class)
  ELSE s

\* String.prototype.trim
Trim(s) == StripLeading(StripTrailing(s, WhiteSpace), WhiteSpace)

StartsWith(s, prefix) ==
  /\ Len(prefix) <= Len(s)
  /\ SubSeq(s, 1, Len(prefix)) = prefix

NormalizeComparisonTextMutant(s) == StripTrailing(s, WhiteSpace)

NormalizeComparisonText(s) ==
  LET trimmed == StripTrailing(s, WhiteSpace)
      withoutTrailingMarkdownControl ==
        StripTrailing(trimmed, WhiteSpace \cup MarkdownControl)
  IN  StripTrailing(withoutTrailingMarkdownControl, WhiteSpace)

IsShortMarkdownNoiseTokenMutant(s) == FALSE

IsShortMarkdownNoiseToken(s) ==
  LET candidate == Trim(s)
  IN  /\ candidate # <<>>
      /\ Len(candidate) <= STREAM_NOISE_TOKEN_MAX_LENGTH
      /\ \A i \in 1..Len(candidate) : candidate[i] \in MarkdownControl

Min(a, b) == IF a < b THEN a ELSE b

\* the while loop of isNonRegressiveStreamUpdate: the length of the longest
\* common prefix of a and b
RECURSIVE CommonPrefixFrom(_, _, _)
CommonPrefixFrom(a, b, n) ==
  IF n < Min(Len(a), Len(b)) /\ a[n + 1] = b[n + 1]
  THEN CommonPrefixFrom(a, b, n + 1)
  ELSE n

CommonPrefixLen(a, b) == CommonPrefixFrom(a, b, 0)

IsNonRegressiveStreamUpdateMutant(previous, current) ==
  LET previousNormalized == NormalizeComparisonText(previous)
      currentNormalized == NormalizeComparisonText(current)
  IN  IF previous = <<>> THEN TRUE
      ELSE IF StartsWith(current, previous) THEN TRUE
      ELSE IF previousNormalized = <<>> THEN TRUE
      ELSE IF StartsWith(currentNormalized, previousNormalized) THEN TRUE
      ELSE IF Len(currentNormalized) * SIMILARITY_DEN
                < SIMILARITY_NUM * Len(previousNormalized) THEN FALSE
      ELSE CommonPrefixLen(previousNormalized, currentNormalized) * SIMILARITY_DEN
             > SIMILARITY_NUM * Len(previousNormalized)

IsNonRegressiveStreamUpdate(previous, current) ==
  LET previousNormalized == NormalizeComparisonText(previous)
      currentNormalized == NormalizeComparisonText(current)
  IN  IF previous = <<>> THEN TRUE
      ELSE IF StartsWith(current, previous) THEN TRUE
      ELSE IF previousNormalized = <<>> THEN TRUE
      ELSE IF StartsWith(currentNormalized, previousNormalized) THEN TRUE
      \* lengthRatio < STREAM_MIN_LENGTH_RATIO
      ELSE IF Len(currentNormalized) * SIMILARITY_DEN
                < SIMILARITY_NUM * Len(previousNormalized) THEN FALSE
      \* preservedPrefixRatio >= STREAM_PREFIX_SIMILARITY_MIN
      ELSE CommonPrefixLen(previousNormalized, currentNormalized) * SIMILARITY_DEN
             >= SIMILARITY_NUM * Len(previousNormalized)

(***************************************************************************)
(* The texts of a session.  The state holds a text by its name; Chars gives *)
(* the characters the string operations work on.  The snapshots are chosen  *)
(* so that every branch of the filter and of the rotation policy is taken:  *)
(*   a15, a17, a20    grow by prefix in this order, and in the opposite     *)
(*                    order each one is a fuzzy continuation of the one     *)
(*                    before it (17/20 and 15/17 are >= 0.85) while a15 is  *)
(*                    not one of a20 (15/20 < 0.85);                        *)
(*   b32, c32         diverge from everything, normalized length 32;        *)
(*   d31s             31 letters and a trailing "*": 32 characters, but     *)
(*                    normalized length 31;                                *)
(*   stars            "**", a short markdown noise token.                   *)
(***************************************************************************)
NoText == ""
THINKING == "thinking"   \* the placeholder of ensureThinkingCardIfNeeded
BLANK == "blank"         \* the " " clearPendingThinkingCard writes

Snapshots == {"a15", "a17", "a20", "b32", "c32", "d31s", "stars"}
Texts == Snapshots \cup {NoText, THINKING, BLANK}

Chars(t) ==
  CASE t = "a15" -> Rep("a", 15)
    [] t = "a17" -> Rep("a", 17)
    [] t = "a20" -> Rep("a", 20)
    [] t = "b32" -> Rep("b", 32)
    [] t = "c32" -> Rep("c", 32)
    [] t = "d31s" -> Rep("d", 31) \o <<"*">>
    [] t = "stars" -> <<"*", "*">>
    [] t = THINKING ->
         <<"hourglass", " ", "T", "h", "i", "n", "k", "i", "n", "g", " ", ".", ".", ".">>
    [] t = BLANK -> <<" ">>
    [] OTHER -> <<>>

\* the string operations on the texts of the session, computed once
NonRegressiveTable ==
  [p \in Texts, c \in Texts |-> IsNonRegressiveStreamUpdate(Chars(p), Chars(c))]
NoiseTable == [t \in Texts |-> IsShortMarkdownNoiseToken(Chars(t))]
NormalizedLenTable == [t \in Texts |-> Len(NormalizeComparisonText(Chars(t)))]
TrimmedEmptyTable == [t \in Texts |-> Trim(Chars(t)) = <<>>]

NonRegressive(previous, current) == NonRegressiveTable[previous, current]
IsNoise(t) == NoiseTable[t]
NormalizedLen(t) == NormalizedLenTable[t]

(***************************************************************************)
(* State.  The variables named as in the source are the closure variables  *)
(* of createFeishuStreamingController.  The counters streamPartialCount,   *)
(* streamFlushCount, streamUpdateCount and streamNextCardCreateCause are   *)
(* only written to the log and are left out.                               *)
(***************************************************************************)
VARIABLES
  streamRenderMode,               \* "card" | "raw", fixed by the parameters
  streamBackend,                  \* "none" | "cardkit" | "raw" | "stopped"
  streamCardKitId,                \* None or a card id
  streamMessageId,                \* None or a message id
  streamSequence,
  streamLastSentText,
  streamPendingText,
  streamInFlight,
  streamTimer,                    \* TRUE: the throttle timer is set
  streamEverUpdated,
  streamClosing,
  streamClosed,
  streamClosePromise,             \* TRUE: a close promise is pending
  cardKitOpQueue,                 \* the threads whose op is queued, head runs
  lastPartialQueued,
  streamLastAcceptedPartial,
  streamSegmentRotationRequested,
  streamRotationNextText,         \* NoText stands for null
  streamSegmentAccumulatedText,
  streamDivergenceStreak,
  streamFinalizing,
  threads,                        \* the control flows and their locals
  remote,                         \* what the transport has seen, per card
  finalized,                      \* the onSegmentFinalized calls, in order
  lastRotation,                   \* what the last completed rotation did
  lastFinal,                      \* the result of the last tryDeliverFinalStream
  threw,                          \* a facade operation has rejected
  lastReturn,                     \* the last sequence-carrying call that returned
  rejectedSinceActive,            \* rejections since activation / last accept
  arms,                           \* times the rotation request was newly set
  rotations,                      \* rotations begun
  nextId,                         \* the next id the remote side hands out
  failures,                       \* failed transport calls so far
  partials,                       \* queuePartialReply calls so far
  calls,                          \* calls of the other facade operations so far
  firstCreateFailed,              \* the create or bind of the first snapshot has failed
  queuedReal,                     \* a snapshot that is not noise was queued before finalizing
  begun,                          \* the message id and accumulated text at each rotation begin
  finalRejected,                  \* a tryDeliverFinalStream has rejected
  timersArmed,                    \* setTimeout calls neither fired nor cleared
  idleReturns,                    \* returns of waitForStreamIdle into tryDeliverFinalStream
  cmpPrevious,                    \* the arguments of a call of
  cmpCurrent,                     \*   isNonRegressiveStreamUpdate (characters),
  cmpResult,                      \*   what it returned,
  cmpDone                         \*   and whether it has returned

vars ==
  << streamRenderMode, streamBackend, streamCardKitId, streamMessageId,
     streamSequence, streamLastSentText, streamPendingText, streamInFlight,
     streamTimer, streamEverUpdated, streamClosing, streamClosed,
     streamClosePromise, cardKitOpQueue, lastPartialQueued,
     streamLastAcceptedPartial, streamSegmentRotationRequested,
     streamRotationNextText, streamSegmentAccumulatedText,
     streamDivergenceStreak, streamFinalizing, threads, remote, finalized,
     lastRotation, lastFinal, threw, lastReturn, rejectedSinceActive, arms,
     rotations, nextId, failures, partials, calls,
     firstCreateFailed,
     queuedReal,
     begun,
     finalRejected, timersArmed, idleReturns,
     cmpPrevious,
     cmpCurrent,
     cmpResult,
     cmpDone >>

None == 0
Threads == 1..NumThreads
MaxIds == MaxPartials + MaxCalls
Ids == 1..MaxIds

\* The state as one record, so that the code a control flow runs between two
\* suspensions is a composition of functions from state to state.
World ==
  [ streamRenderMode |-> streamRenderMode, streamBackend |-> streamBackend,
    streamCardKitId |-> streamCardKitId, streamMessageId |-> streamMessageId,
    streamSequence |-> streamSequence,
    streamLastSentText |-> streamLastSentText,
    streamPendingText |-> streamPendingText, streamInFlight |-> streamInFlight,
    streamTimer |-> streamTimer, streamEverUpdated |-> streamEverUpdated,
    streamClosing |-> streamClosing, streamClosed |-> streamClosed,
    streamClosePromise |-> streamClosePromise,
    cardKitOpQueue |-> cardKitOpQueue, lastPartialQueued |-> lastPartialQueued,
    streamLastAcceptedPartial |-> streamLastAcceptedPartial,
    streamSegmentRotationRequested |-> streamSegmentRotationRequested,
    streamRotationNextText |-> streamRotationNextText,
    streamSegmentAccumulatedText |-> streamSegmentAccumulatedText,
    streamDivergenceStreak |-> streamDivergenceStreak,
    streamFinalizing |-> streamFinalizing, threads |-> threads,
    remote |-> remote, finalized |-> finalized, lastRotation |-> lastRotation,
    lastFinal |-> lastFinal, threw |-> threw, lastReturn |-> lastReturn,
    rejectedSinceActive |-> rejectedSinceActive, arms |-> arms,
    rotations |-> rotations, nextId |-> nextId, failures |-> failures,
    partials |-> partials, calls |-> calls,
    firstCreateFailed |-> firstCreateFailed,
    queuedReal |-> queuedReal,
    begun |-> begun,
    finalRejected |-> finalRejected, timersArmed |-> timersArmed,
    idleReturns |-> idleReturns,
    cmpPrevious |-> cmpPrevious,
    cmpCurrent |-> cmpCurrent,
    cmpResult |-> cmpResult,
    cmpDone |-> cmpDone ]

CommitFields(w) ==
  /\ streamRenderMode' = w.streamRenderMode
  /\ streamBackend' = w.streamBackend
  /\ streamCardKitId' = w.streamCardKitId
  /\ streamMessageId' = w.streamMessageId
  /\ streamSequence' = w.streamSequence
  /\ streamLastSentText' = w.streamLastSentText
  /\ streamPendingText' = w.streamPendingText
  /\ streamInFlight' = w.streamInFlight
  /\ streamTimer' = w.streamTimer
  /\ streamEverUpdated' = w.streamEverUpdated
  /\ streamClosing' = w.streamClosing
  /\ streamClosed' = w.streamClosed
  /\ streamClosePromise' = w.streamClosePromise
  /\ cardKitOpQueue' = w.cardKitOpQueue
  /\ lastPartialQueued' = w.lastPartialQueued
  /\ streamLastAcceptedPartial' = w.streamLastAcceptedPartial
  /\ streamSegmentRotationRequested' = w.streamSegmentRotationRequested
  /\ streamRotationNextText' = w.streamRotationNextText
  /\ streamSegmentAccumulatedText' = w.streamSegmentAccumulatedText
  /\ streamDivergenceStreak' = w.streamDivergenceStreak
  /\ streamFinalizing' = w.streamFinalizing
  /\ threads' = w.threads
  /\ remote' = w.remote
  /\ finalized' = w.finalized
  /\ lastRotation' = w.lastRotation
  /\ lastFinal' = w.lastFinal
  /\ threw' = w.threw
  /\ lastReturn' = w.lastReturn
  /\ rejectedSinceActive' = w.rejectedSinceActive
  /\ arms' = w.arms
  /\ rotations' = w.rotations
  /\ nextId' = w.nextId
  /\ failures' = w.failures
  /\ partials' = w.partials
  /\ calls' = w.calls
  /\ firstCreateFailed' = w.firstCreateFailed
  /\ queuedReal' = w.queuedReal
  /\ begun' = w.begun
  /\ finalRejected' = w.finalRejected
  /\ timersArmed' = w.timersArmed
  /\ idleReturns' = w.idleReturns
  /\ cmpPrevious' = w.cmpPrevious
  /\ cmpCurrent' = w.cmpCurrent
  /\ cmpResult' = w.cmpResult
  /\ cmpDone' = w.cmpDone

\* the next state is w (w is evaluated once)
Commit(w) == \E x \in {w} : CommitFields(x)

(***************************************************************************)
(* Control flows.  A thread is idle or runs one facade operation or one     *)
(* timer callback; pc is where it is suspended:                             *)
(*   create, bind, send, edit, delete   that transport call is outstanding  *)
(*   mq_wait     its mutation is queued behind others (enqueueCardKitOp)    *)
(*   mq_call     the transport call of its mutation is outstanding          *)
(*   mq_sleep    sleep(100 * attempt) of runCardKitMutation                 *)
(*   mq_isleep   sleep(250 * attempt) of updateCardElementWithRetry         *)
(*   wi_sleep    sleep(50) of waitForStreamIdle                             *)
(*   cp_wait     await streamClosePromise of another caller                 *)
(***************************************************************************)
IdleThread ==
  [ op |-> "idle",        \* "flush" (timer callback), "final", "close", "clear", "ensure"
    pc |-> "idle",
    inFlush |-> FALSE,    \* inside the body of flushStream
    inClose |-> FALSE,    \* inside the close promise of closeStreamingIfNeeded
    rot |-> FALSE,        \* this flush performs a rotation
    site |-> "",          \* the caller of sendOrUpdateStreamMessage
    kind |-> "",          \* the mutation given to runCardKitMutation
    text |-> NoText,      \* text of sendOrUpdateStreamMessage
    card |-> None,        \* card (message) id the call is about
    seq |-> 0,            \* nextSequence of the attempt
    attempt |-> 0,
    iattempt |-> 0,       \* attempt of updateCardElementWithRetry
    tries |-> 0,          \* transport calls of the mutation so far
    next |-> NoText,      \* nextSegmentText
    pending |-> NoText,   \* text of flushStream
    pmsg |-> None,        \* previousSegmentMessageId
    ptext |-> NoText,     \* previousSegmentText
    arg |-> NoText,       \* text given to tryDeliverFinalStream
    ftext |-> NoText,     \* finalText
    ccard |-> None,       \* cardId of closeStreamingIfNeeded
    owner |-> None,       \* the thread whose close promise is awaited
    halted |-> FALSE,     \* the backend was "stopped" when the operation was called
    late |-> FALSE,       \* the first create had failed when the operation was called
    tx |-> FALSE,         \* a transport call was issued since the operation was called
    rcard |-> None,       \* the card the rotation retires
    id0 |-> 0 ]           \* nextId when the rotation began

CallPcs == {"create", "bind", "send", "edit", "delete", "mq_call"}

\* the threads with a transport call outstanding
Outstanding == {t \in Threads : threads[t].pc \in CallPcs}

Th(w, t) == w.threads[t]

Finish(w, t) == [w EXCEPT !.threads[t] = IdleThread]

\* thread t issues a transport call and waits for it at pc; every
\* tryDeliverFinalStream in progress has now seen a transport call
Issue(w, t, pc) ==
  [w EXCEPT !.threads =
     [u \in Threads |->
        LET r == IF u = t THEN [w.threads[u] EXCEPT !.pc = pc] ELSE w.threads[u]
        IN  [r EXCEPT !.tx = @ \/ r.op = "final"]]]

NoCard ==
  [ seqPassed |-> 0,      \* the last sequence number passed to the card
    seqOk |-> 0,          \* the sequence number of the last successful call
    content |-> NoText,   \* the last content transmitted (initial or update)
    closeCalls |-> 0,     \* close calls issued
    closeOks |-> 0,       \* close calls that succeeded
    updated |-> FALSE ]   \* a content update after the creation has succeeded

MaxRetriesMutant(kind) == STREAM_SEQUENCE_MAX_RETRIES

\* options?.maxRetries ?? STREAM_SEQUENCE_MAX_RETRIES
MaxRetries(kind) ==
  IF kind \in {"rotclose", "clear"}
  THEN CLEANUP_MAX_RETRIES
  ELSE STREAM_SEQUENCE_MAX_RETRIES

MarkClosed(kind) == kind \in {"rotclose", "close"}

\* the content a mutation of this kind writes, NoText when it writes none
ContentOf(r) ==
  CASE r.kind = "update" -> r.text
    [] r.kind = "clear" -> BLANK
    [] OTHER -> NoText

RECURSIVE SendOrUpdateStreamMessage(_, _, _, _)
RECURSIVE AfterSend(_, _, _)
RECURSIVE MutationDone(_, _, _)
RECURSIVE RotationClose(_, _)
RECURSIVE AfterRotationClose(_, _)
RECURSIVE FlushStream(_, _)
RECURSIVE FlushFinally(_, _)
RECURSIVE FlushReturn(_, _)
RECURSIVE WaitForStreamIdle(_, _)
RECURSIVE IdleProceed(_, _)
RECURSIVE AfterIdle(_, _)
RECURSIVE CloseStreamingIfNeeded(_, _)
RECURSIVE CloseReturn(_, _, _)
RECURSIVE FinalReturn(_, _, _)

(***************************************************************************)
(* enqueueCardKitOp and runCardKitMutation.                                *)
(***************************************************************************)
\* runCardKitMutation up to its await: the op is chained on cardKitOpQueue
RunCardKitMutation(w, t, kind, expectedCardId) ==
  [w EXCEPT !.cardKitOpQueue = Append(@, t),
            !.threads[t].pc = "mq_wait",
            !.threads[t].kind = kind,
            !.threads[t].tries = 0,
            !.threads[t].card = expectedCardId]

\* the head of the for loop: the card check, then the transport call
Attempt(w, t, n) ==
  LET r == Th(w, t)
      nextSequence == w.streamSequence + 1
  IN  IF w.streamCardKitId # r.card
      THEN MutationDone(w, t, "ok")
      ELSE Issue([w EXCEPT !.threads[t].attempt = n,
                           !.threads[t].iattempt = 1,
                           !.threads[t].tries = @ + 1,
                           !.threads[t].seq = nextSequence,
                           !.remote[r.card].seqPassed = nextSequence,
                           !.remote[r.card].closeCalls =
                              IF MarkClosed(r.kind) THEN @ + 1 ELSE @],
                 t, "mq_call")

ClosedSkipsMutant(w, kind) == FALSE

\* streamClosed && !options?.markClosed
ClosedSkips(w, kind) == w.streamClosed /\ ~MarkClosed(kind)

\* the op starts: the three guards, then the first attempt
MutationStart(w, t) ==
  LET r == Th(w, t)
  IN  IF w.streamBackend # "cardkit" \/ w.streamCardKitId = None
      THEN MutationDone(w, t, "ok")
      ELSE IF w.streamCardKitId # r.card
      THEN MutationDone(w, t, "ok")
      ELSE IF ClosedSkips(w, r.kind)
      THEN MutationDone(w, t, "ok")
      ELSE Attempt(w, t, 1)

RetryableMutant(out) == TRUE

\* sequenceError || isRetryableStreamError(err)
Retryable(out) == out \in {"seq", "transient"}

CommitsSequenceMutant(out) == TRUE

\* the sequence counter takes the attempted value: after a success, and
\* after a sequence-compare failure that is retried
CommitsSequence(out) == out \in {"ok", "seq"}

\* the transport call of a mutation returns with out:
\* "ok", "seq" (sequence number compare failed), "transient" or "permanent"
MutationReturns(w, t, out) ==
  LET r == Th(w, t)
      w0 == [w EXCEPT !.lastReturn = [card |-> r.card, seq |-> r.seq, out |-> out],
                      !.failures = IF out = "ok" THEN @ ELSE @ + 1]
  IN  IF out = "ok"
      THEN MutationDone(
             [w0 EXCEPT !.streamSequence = r.seq,
                        !.streamClosed = IF MarkClosed(r.kind) THEN TRUE ELSE @,
                        !.remote[r.card].seqOk = r.seq,
                        !.remote[r.card].content =
                           IF ContentOf(r) # NoText THEN ContentOf(r) ELSE @,
                        !.remote[r.card].closeOks =
                           IF MarkClosed(r.kind) THEN @ + 1 ELSE @,
                        !.remote[r.card].updated = @ \/ r.kind = "update"],
             t, "ok")
      ELSE IF /\ r.kind = "update"
              /\ out = "transient"
              /\ r.iattempt < STREAM_UPDATE_MAX_RETRIES
      THEN [w0 EXCEPT !.threads[t].pc = "mq_isleep"]
      ELSE IF ~Retryable(out) \/ r.attempt >= MaxRetries(r.kind)
      THEN MutationDone(w0, t, "err")
      ELSE [w0 EXCEPT !.streamSequence = IF CommitsSequence(out) THEN r.seq ELSE @,
                      !.threads[t].pc = "mq_sleep"]

\* updateCardElementWithRetry tries again: same card, same sequence
InnerRetry(w, t) ==
  Issue([w EXCEPT !.threads[t].iattempt = @ + 1,
                  !.threads[t].tries = @ + 1], t, "mq_call")

\* the op is over (res: "ok", also when it was skipped, or "err"): the next
\* op of the queue may start and the caller of runCardKitMutation goes on
MutationDone(w, t, res) ==
  LET r == Th(w, t)
      w1 == [w EXCEPT !.cardKitOpQueue = Tail(@)]
  IN  CASE r.kind = "update" ->
             IF res = "ok"
             THEN AfterSend([w1 EXCEPT !.streamEverUpdated = TRUE,
                                       !.streamLastSentText = r.text], t, TRUE)
             ELSE AfterSend([w1 EXCEPT !.streamBackend = "stopped"], t, FALSE)
        [] r.kind = "rotclose" -> AfterRotationClose(w1, t)
        [] r.kind = "summary" -> CloseStreamingIfNeeded(w1, t)
        [] r.kind = "close" -> CloseReturn(w1, t, res)
        [] r.kind = "clear" ->
             IF res = "ok" \/ w1.streamMessageId = None
             THEN Finish(w1, t)
             ELSE Issue([w1 EXCEPT !.threads[t].card = w1.streamMessageId],
                        t, "delete")

(***************************************************************************)
(* sendOrUpdateStreamMessage.                                              *)
(***************************************************************************)
AlreadySentMutant(w, text) == text = NoText

\* if (!text || text === streamLastSentText) return true
AlreadySent(w, text) == text = NoText \/ text = w.streamLastSentText

SendOrUpdateStreamMessage(w, t, text, site) ==
  LET w0 == [w EXCEPT !.threads[t].text = text, !.threads[t].site = site]
      \* neither branch is taken: line 921 still records the text as sent
      fallThrough == AfterSend([w0 EXCEPT !.streamLastSentText = text], t, TRUE)
  IN  IF AlreadySent(w, text)
      THEN AfterSend(w0, t, TRUE)
      ELSE IF w.streamRenderMode = "card"
      THEN IF w.streamClosing \/ w.streamClosed
           THEN AfterSend(w0, t, TRUE)
           ELSE IF w.streamBackend = "cardkit" /\ w.streamCardKitId # None
           THEN RunCardKitMutation(w0, t, "update", w.streamCardKitId)
           ELSE IF w.streamBackend = "none"
           THEN Issue(w0, t, "create")
           ELSE fallThrough
      ELSE IF w.streamBackend = "raw" /\ w.streamMessageId # None
      THEN Issue([w0 EXCEPT !.threads[t].card = w.streamMessageId], t, "edit")
      ELSE IF w.streamBackend = "none"
      THEN Issue(w0, t, "send")
      ELSE fallThrough

\* sendOrUpdateStreamMessage returns ok to the site that called it
AfterSend(w, t, ok) ==
  LET r == Th(w, t)
  IN  CASE r.site = "rot" -> RotationClose(w, t)
        [] r.site = "flush" -> FlushFinally(w, t)
        [] r.site = "final" ->
             IF ~ok
             THEN FinalReturn(w, t, FALSE)
             ELSE IF w.streamRenderMode = "card" /\ w.streamCardKitId # None
             THEN RunCardKitMutation(w, t, "summary", w.streamCardKitId)
             ELSE CloseStreamingIfNeeded(w, t)

EnsureFailedMutant(w, t) ==
  Finish([w EXCEPT !.failures = @ + 1, !.streamBackend = "stopped"], t)

\* the catch block of ensureThinkingCardIfNeeded: the error is logged
EnsureFailed(w, t) == Finish([w EXCEPT !.failures = @ + 1], t)

\* createCardEntityFeishu returns, to sendOrUpdateStreamMessage or to
\* ensureThinkingCardIfNeeded
CreateReturns(w, t, out) ==
  LET r == Th(w, t)
  IN  IF out = "ok"
      THEN Issue([w EXCEPT !.threads[t].card = w.nextId,
                           !.nextId = @ + 1,
                           !.remote[w.nextId].content = r.text],
                 t, "bind")
      ELSE IF r.op = "ensure"
      THEN EnsureFailed(w, t)
      ELSE AfterSend([w EXCEPT !.failures = @ + 1,
                               !.firstCreateFailed = @ \/ w.rotations = 0,
                               !.streamBackend = "stopped",
                               !.streamLastSentText = r.text], t, TRUE)

\* sendCardByCardIdFeishu returns; the message of card k has id k
BindReturns(w, t, out) ==
  LET r == Th(w, t)
      bound == [w EXCEPT !.streamCardKitId = r.card,
                         !.streamMessageId = r.card,
                         !.streamBackend = "cardkit",
                         !.streamSequence = 0,
                         !.rejectedSinceActive = 0]
  IN  IF out = "ok"
      THEN IF r.op = "ensure"
           THEN Finish(bound, t)
           ELSE AfterSend([bound EXCEPT !.streamLastSentText = r.text], t, TRUE)
      ELSE IF r.op = "ensure"
      THEN EnsureFailed(w, t)
      ELSE AfterSend([w EXCEPT !.failures = @ + 1,
                               !.firstCreateFailed = @ \/ w.rotations = 0,
                               !.streamBackend = "stopped",
                               !.streamLastSentText = r.text], t, TRUE)

\* sendMessageFeishu returns (raw mode)
SendReturns(w, t, out) ==
  LET r == Th(w, t)
  IN  IF out = "ok"
      THEN AfterSend([w EXCEPT !.streamMessageId = w.nextId,
                               !.nextId = @ + 1,
                               !.remote[w.nextId].content = r.text,
                               !.streamBackend = "raw",
                               !.rejectedSinceActive = 0,
                               !.streamLastSentText = r.text], t, TRUE)
      ELSE AfterSend([w EXCEPT !.failures = @ + 1,
                               !.streamBackend = "stopped"], t, FALSE)

\* editMessageFeishu returns (raw mode)
EditReturns(w, t, out) ==
  LET r == Th(w, t)
  IN  IF out = "ok"
      THEN AfterSend([w EXCEPT !.streamEverUpdated = TRUE,
                               !.remote[r.card].content = r.text,
                               !.remote[r.card].updated = TRUE,
                               !.streamLastSentText = r.text], t, TRUE)
      ELSE AfterSend([w EXCEPT !.failures = @ + 1,
                               !.streamBackend = "stopped"], t, FALSE)

\* deleteMessageFeishu returns to clearPendingThinkingCard
DeleteReturns(w, t, out) ==
  Finish([w EXCEPT !.failures = IF out = "ok" THEN @ ELSE @ + 1], t)

(***************************************************************************)
(* flushStream and the segment rotation.                                   *)
(***************************************************************************)
FlushBlockedMutant(w) == FALSE

\* if (streamInFlight) return
FlushBlocked(w) == w.streamInFlight

RotationBegin(w, t) ==
  LET w1 == [w EXCEPT !.streamSegmentRotationRequested = FALSE,
                      !.streamDivergenceStreak = 0,
                      !.streamRotationNextText = NoText,
                      !.rotations = @ + 1,
                      !.begun = Append(@, [messageId |-> w.streamMessageId,
                                           content |-> w.streamSegmentAccumulatedText]),
                      !.rejectedSinceActive = 0,
                      !.threads[t].rot = TRUE,
                      !.threads[t].next = w.streamRotationNextText,
                      !.threads[t].pmsg = w.streamMessageId,
                      !.threads[t].ptext = w.streamSegmentAccumulatedText,
                      !.threads[t].rcard = w.streamCardKitId,
                      !.threads[t].id0 = w.nextId]
  IN  IF /\ w.streamSegmentAccumulatedText # NoText
         /\ w.streamSegmentAccumulatedText # w.streamLastSentText
      THEN SendOrUpdateStreamMessage(w1, t, w.streamSegmentAccumulatedText, "rot")
      ELSE RotationClose(w1, t)

RotationClose(w, t) ==
  IF /\ w.streamRenderMode = "card"
     /\ w.streamBackend = "cardkit"
     /\ w.streamCardKitId # None
  THEN RunCardKitMutation(w, t, "rotclose", w.streamCardKitId)
  ELSE AfterRotationClose(w, t)

SegmentFinalizedMutant(w, t) ==
  LET r == Th(w, t)
  IN  IF r.pmsg # None /\ ~TrimmedEmptyTable[r.ptext]
      THEN [w EXCEPT !.finalized =
               Append(@, [messageId |-> r.pmsg, content |-> r.next])]
      ELSE w

\* void onSegmentFinalized?.(...)
SegmentFinalized(w, t) ==
  LET r == Th(w, t)
  IN  IF r.pmsg # None /\ ~TrimmedEmptyTable[r.ptext]
      THEN [w EXCEPT !.finalized =
               Append(@, [messageId |-> r.pmsg, content |-> r.ptext])]
      ELSE w

\* the close is over (its failure is only logged): the notification, the
\* reset of the per-entity fields, then the first text of the new segment
SessionResetMutant(w) ==
  [w EXCEPT !.streamBackend = "none",
            !.streamCardKitId = None,
            !.streamSequence = 0,
            !.streamLastSentText = NoText,
            !.streamClosing = FALSE,
            !.streamClosed = FALSE,
            !.streamClosePromise = None]

\* the rotation forgets the retired entity
SessionReset(w) ==
  [w EXCEPT !.streamBackend = "none",
            !.streamCardKitId = None,
            !.streamMessageId = None,
            !.streamSequence = 0,
            !.streamLastSentText = NoText,
            !.streamClosing = FALSE,
            !.streamClosed = FALSE,
            !.streamClosePromise = None]

AfterRotationClose(w, t) ==
  LET r == Th(w, t)
      w1 == SegmentFinalized(w, t)
      w2 == [SessionReset(w1) EXCEPT !.streamLastAcceptedPartial = r.next,
                                     !.streamSegmentAccumulatedText = r.next]
      text == IF r.next # NoText THEN r.next ELSE r.pending
  IN  IF text # NoText
      THEN SendOrUpdateStreamMessage(w2, t, text, "flush")
      ELSE FlushFinally(w2, t)

FlushStream(w, t) ==
  LET w0 == [w EXCEPT !.streamTimer = FALSE]
      text == w.streamPendingText
      w1 == [w0 EXCEPT !.streamPendingText = NoText]
      w2 == [w1 EXCEPT !.streamInFlight = TRUE,
                       !.threads[t].inFlush = TRUE,
                       !.threads[t].pending = text]
  IN  IF FlushBlocked(w0)
      THEN FlushReturn(w0, t)
      ELSE IF text = NoText /\ ~w.streamSegmentRotationRequested
      THEN FlushReturn(w1, t)
      ELSE IF w.streamSegmentRotationRequested
      THEN RotationBegin(w2, t)
      ELSE SendOrUpdateStreamMessage(w2, t, text, "flush")

ScheduleFlushMutant(w, due) ==
  LET idle == {t \in Threads : w.threads[t].op = "idle"}
      t == CHOOSE u \in idle : TRUE
  IN  IF due /\ idle # {}
      THEN FlushStream([w EXCEPT !.threads[t].op = "flush"], t)
      ELSE w

\* if (!streamTimer) streamTimer = setTimeout(() => void flushStream(), ...),
\* under the condition due
ScheduleFlush(w, due) ==
  IF due /\ ~w.streamTimer
  THEN [w EXCEPT !.streamTimer = TRUE, !.timersArmed = @ + 1]
  ELSE w

RearmDueMutant(w) == FALSE

\* streamPendingText || streamSegmentRotationRequested
RearmDue(w) == w.streamPendingText # NoText \/ w.streamSegmentRotationRequested

\* the finally block of flushStream
FlushFinally(w, t) ==
  LET r == Th(w, t)
      w1 == ScheduleFlush([w EXCEPT !.streamInFlight = FALSE,
                                    !.threads[t].inFlush = FALSE,
                                    !.threads[t].rot = FALSE],
                          RearmDue(w))
      w2 == IF r.rot
            THEN [w1 EXCEPT !.lastRotation =
                    [ done |-> TRUE,
                      card |-> r.rcard,
                      next |-> r.next,
                      clean |-> (w.failures = 0),
                      closeCalls |-> IF r.rcard = None THEN 0
                                     ELSE w.remote[r.rcard].closeCalls,
                      created |-> w.nextId - r.id0,
                      newCard |-> w.streamCardKitId,
                      content |-> IF w.streamCardKitId = None THEN NoText
                                  ELSE w.remote[w.streamCardKitId].content ]]
            ELSE w1
  IN  FlushReturn(w2, t)

\* flushStream returns: to the timer, or into waitForStreamIdle
FlushReturn(w, t) ==
  IF Th(w, t).op = "flush" THEN Finish(w, t) ELSE AfterIdle(w, t)

(***************************************************************************)
(* waitForStreamIdle, tryDeliverFinalStream, closeStreamingIfNeeded.       *)
(***************************************************************************)
WaitForStreamIdle(w, t) ==
  IF w.streamInFlight
  THEN [w EXCEPT !.threads[t].pc = "wi_sleep"]
  ELSE IdleProceed(w, t)

IdleProceedMutant(w, t) == AfterIdle(w, t)

\* the loop is left: flush once more if the timer is set
IdleProceed(w, t) ==
  IF w.streamTimer
  THEN FlushStream([w EXCEPT !.streamTimer = FALSE,
                             !.timersArmed = @ - 1], t)
  ELSE AfterIdle(w, t)

FinalTextMutant(w, text) == text

\* finalText of tryDeliverFinalStream
FinalText(w, text) ==
  IF /\ w.streamSegmentAccumulatedText # NoText
     /\ ~NonRegressive(w.streamSegmentAccumulatedText, text)
  THEN w.streamSegmentAccumulatedText
  ELSE text

\* waitForStreamIdle returns: into the close promise, or into
\* tryDeliverFinalStream
AfterIdle(w, t) ==
  LET r == Th(w, t)
      finalText == FinalText(w, r.arg)
      w1 == [w EXCEPT !.idleReturns = @ + 1]
  IN  IF r.inClose
      THEN RunCardKitMutation(w, t, "close", r.ccard)
      ELSE IF w.streamBackend = "stopped" \/ w.streamMessageId = None
      THEN FinalReturn(w1, t, FALSE)
      ELSE SendOrUpdateStreamMessage([w1 EXCEPT !.threads[t].ftext = finalText],
                                     t, finalText, "final")

TryDeliverFinalStream(w, t, text) ==
  WaitForStreamIdle(
    [w EXCEPT !.streamFinalizing = TRUE,
              !.threads[t] = [IdleThread EXCEPT !.op = "final",
                                                !.arg = text,
                                                !.halted = (w.streamBackend = "stopped"),
                                                !.late = w.firstCreateFailed]],
    t)

FinalReturn(w, t, handled) ==
  LET r == Th(w, t)
  IN  Finish([w EXCEPT !.lastFinal =
                [ done |-> TRUE,
                  handled |-> handled,
                  messageId |-> IF handled THEN w.streamMessageId ELSE None,
                  halted |-> r.halted,
                  late |-> r.late,
                  arg |-> r.arg,
                  ftext |-> r.ftext,
                  tx |-> r.tx ]], t)

\* closeStreamingIfNeeded, called by the caller (op "close") or by
\* tryDeliverFinalStream (op "final")
CloseStreamingIfNeeded(w, t) ==
  IF w.streamBackend # "cardkit" \/ w.streamCardKitId = None
  THEN CloseReturn(w, t, "ok")
  ELSE IF w.streamClosed
  THEN CloseReturn(w, t, "ok")
  ELSE IF w.streamClosePromise # None
  THEN [w EXCEPT !.threads[t].pc = "cp_wait",
                 !.threads[t].owner = w.streamClosePromise]
  ELSE WaitForStreamIdle(
         [w EXCEPT !.streamClosing = TRUE,
                   !.streamClosePromise = t,
                   !.threads[t].inClose = TRUE,
                   !.threads[t].ccard = w.streamCardKitId],
         t)

\* closeStreamingIfNeeded returns or (res = "err", only for a caller that
\* awaited the promise of another caller) rejects
ReturnFromClose(w, t, res) ==
  LET r == Th(w, t)
  IN  IF res = "err"
      THEN Finish([w EXCEPT !.threw = TRUE,
                            !.finalRejected = @ \/ r.op = "final"], t)
      ELSE IF r.op = "final"
      THEN FinalReturn(w, t, TRUE)
      ELSE Finish(w, t)

RECURSIVE ResumeWaiters(_, _, _)
ResumeWaiters(w, waiters, res) ==
  IF waiters = {}
  THEN w
  ELSE LET u == CHOOSE x \in waiters : TRUE
       IN  ResumeWaiters(ReturnFromClose(w, u, res), waiters \ {u}, res)

\* the close promise of thread t settles with res: the finally block of its
\* owner, then the callers that awaited it
CloseReturn(w, t, res) ==
  LET r == Th(w, t)
      w1 == [w EXCEPT !.streamClosing = IF w.streamClosed THEN @ ELSE FALSE,
                      !.streamClosePromise = None,
                      !.threads[t].inClose = FALSE]
      waiters == {u \in Threads : Th(w, u).pc = "cp_wait" /\ Th(w, u).owner = t}
  IN  IF r.inClose
      THEN ReturnFromClose(ResumeWaiters(w1, waiters, res), t, "ok")
      ELSE ReturnFromClose(w, t, res)

(***************************************************************************)
(* clearPendingThinkingCard, ensureThinkingCardIfNeeded, queuePartialReply. *)
(***************************************************************************)
ClearPendingThinkingCard(w, t) ==
  IF w.streamCardKitId = None \/ w.streamEverUpdated
  THEN w
  ELSE RunCardKitMutation([w EXCEPT !.threads[t].op = "clear"],
                          t, "clear", w.streamCardKitId)

\* thinkingCardEnabled, trueStreamingEnabled and replyToMessageId are set
EnsureThinkingCardIfNeeded(w, t) ==
  IF w.streamRenderMode # "card" \/ w.streamBackend # "none"
  THEN w
  ELSE Issue([w EXCEPT !.threads[t].op = "ensure",
                       !.threads[t].text = THINKING], t, "create")

HasActiveSegmentMutant(w) == TRUE

\* Boolean(streamMessageId || streamCardKitId)
HasActiveSegment(w) == w.streamMessageId # None \/ w.streamCardKitId # None

RotationLengthReachedMutant(text) == Len(Chars(text)) >= STREAM_ROTATION_MIN_LENGTH

\* normalizedLen >= STREAM_ROTATION_MIN_LENGTH
RotationLengthReached(text) == NormalizedLen(text) >= STREAM_ROTATION_MIN_LENGTH

DivergenceConfirmedMutant(streak) == streak > STREAM_DIVERGENCE_CONFIRMATION_COUNT

\* streamDivergenceStreak >= STREAM_DIVERGENCE_CONFIRMATION_COUNT
DivergenceConfirmed(streak) == streak >= STREAM_DIVERGENCE_CONFIRMATION_COUNT

PartialIgnoredMutant(w) == w.streamFinalizing \/ w.streamClosing \/ w.streamClosed

\* streamFinalizing || streamBackend === "stopped" || streamClosing || streamClosed
PartialIgnored(w) ==
  \/ w.streamFinalizing
  \/ w.streamBackend = "stopped"
  \/ w.streamClosing
  \/ w.streamClosed

\* queuePartialReply(text), text not empty, trueStreamingEnabled
QueuePartialReply(w, text) ==
  LET streak == w.streamDivergenceStreak + 1
      reachedConfirmation == DivergenceConfirmed(streak) /\ RotationLengthReached(text)
      requested ==
        \/ w.streamSegmentRotationRequested
        \/ HasActiveSegment(w) /\ reachedConfirmation
  IN  IF text = w.lastPartialQueued
      THEN w
      ELSE IF PartialIgnored(w)
      THEN [w EXCEPT !.lastPartialQueued = text]
      ELSE IF IsNoise(text)
      THEN [w EXCEPT !.lastPartialQueued = text]
      ELSE IF ~NonRegressive(w.streamLastAcceptedPartial, text)
      THEN ScheduleFlush(
             [w EXCEPT !.streamDivergenceStreak = streak,
                       !.streamRotationNextText = text,
                       !.streamSegmentRotationRequested = requested,
                       !.lastPartialQueued = text,
                       !.rejectedSinceActive = @ + 1,
                       !.arms = IF requested /\ ~w.streamSegmentRotationRequested
                                THEN @ + 1 ELSE @],
             requested)
      ELSE ScheduleFlush(
             [w EXCEPT !.streamLastAcceptedPartial = text,
                       !.streamSegmentAccumulatedText = text,
                       !.streamDivergenceStreak = 0,
                       !.lastPartialQueued = text,
                       !.streamPendingText = text,
                       !.rejectedSinceActive = 0],
             TRUE)

(***************************************************************************)
(* Initial state and actions.                                              *)
(***************************************************************************)
NoRotation ==
  [ done |-> FALSE, card |-> None, next |-> NoText, clean |-> TRUE,
    closeCalls |-> 0, created |-> 0, newCard |-> None, content |-> NoText ]

NoFinal ==
  [ done |-> FALSE, handled |-> FALSE, messageId |-> None, halted |-> FALSE,
    late |-> FALSE, arg |-> NoText, ftext |-> NoText, tx |-> FALSE ]

\* the controller as createFeishuStreamingController returns it
ControllerInit ==
  /\ streamRenderMode \in {"card", "raw"}
  /\ streamBackend = "none"
  /\ streamCardKitId = None
  /\ streamMessageId = None
  /\ streamSequence = 0
  /\ streamLastSentText = NoText
  /\ streamPendingText = NoText
  /\ streamInFlight = FALSE
  /\ streamTimer = FALSE
  /\ streamEverUpdated = FALSE
  /\ streamClosing = FALSE
  /\ streamClosed = FALSE
  /\ streamClosePromise = None
  /\ cardKitOpQueue = <<>>
  /\ lastPartialQueued = NoText
  /\ streamLastAcceptedPartial = NoText
  /\ streamSegmentRotationRequested = FALSE
  /\ streamRotationNextText = NoText
  /\ streamSegmentAccumulatedText = NoText
  /\ streamDivergenceStreak = 0
  /\ streamFinalizing = FALSE
  /\ threads = [t \in Threads |-> IdleThread]
  /\ remote = [i \in Ids |-> NoCard]
  /\ finalized = <<>>
  /\ lastRotation = NoRotation
  /\ lastFinal = NoFinal
  /\ threw = FALSE
  /\ lastReturn = [card |-> None, seq |-> 0, out |-> "none"]
  /\ rejectedSinceActive = 0
  /\ arms = 0
  /\ rotations = 0
  /\ nextId = 1
  /\ failures = 0
  /\ partials = 0
  /\ calls = 0
  /\ firstCreateFailed = FALSE
  /\ queuedReal = FALSE
  /\ begun = <<>>
  /\ finalRejected = FALSE
  /\ timersArmed = 0
  /\ idleReturns = 0

\* no call of isNonRegressiveStreamUpdate is followed on its own
Init ==
  /\ ControllerInit
  /\ cmpPrevious = <<>>
  /\ cmpCurrent = <<>>
  /\ cmpResult = FALSE
  /\ cmpDone = FALSE

\* a new control flow takes the first idle thread
HasIdleThread == \E t \in Threads : threads[t].op = "idle"
NewThread ==
  CHOOSE t \in Threads :
    /\ threads[t].op = "idle"
    /\ \A u \in Threads : u < t => threads[u].op # "idle"

\* the outcomes a transport call can still have
MutationOutcomes ==
  {"ok"} \cup IF failures < MaxFailures THEN {"seq", "transient", "permanent"} ELSE {}
CallOutcomes ==
  {"ok"} \cup IF failures < MaxFailures THEN {"permanent"} ELSE {}

\* the snapshots and the final text offered where the other facade
\* operations run too
FacadeSnapshots == {"a17", "a20", "b32", "c32"}
FinalTexts == {"a20"}

\* (a call that offers lastPartialQueued again returns at once and changes
\* nothing: it is left to stuttering)
OfferPartialWithin(offered, max) ==
  /\ partials < max
  /\ \E text \in offered :
       /\ text # lastPartialQueued
       /\ Commit(QueuePartialReply(
                   [World EXCEPT !.partials = @ + 1,
                                 !.queuedReal = @ \/ (~IsNoise(text) /\ ~streamFinalizing)],
                   text))

OfferPartial(offered) == OfferPartialWithin(offered, MaxPartials)

CallQueuePartialReply == OfferPartial(Snapshots)

FacadeQueuePartialReply == OfferPartial(FacadeSnapshots)

AnyQueuePartialReply == OfferPartialWithin(FacadeSnapshots, MaxFacadePartials)

\* the throttle timer fires: void flushStream()
TimerFires ==
  /\ streamTimer
  /\ HasIdleThread
  /\ Commit(FlushStream([World EXCEPT !.threads[NewThread].op = "flush",
                                      !.timersArmed = @ - 1], NewThread))

FinalCallWithin(max) ==
  /\ calls < max
  /\ HasIdleThread
  /\ \E text \in FinalTexts :
       Commit(TryDeliverFinalStream([World EXCEPT !.calls = @ + 1], NewThread, text))

CallTryDeliverFinalStream == FinalCallWithin(MaxCalls)

\* (of the three operations below, a call that returns at its first test
\* changes nothing: it is left to stuttering)
CloseCallWithin(max) ==
  /\ calls < max
  /\ HasIdleThread
  /\ streamBackend = "cardkit" /\ streamCardKitId # None /\ ~streamClosed
  /\ Commit(CloseStreamingIfNeeded(
              [World EXCEPT !.calls = @ + 1, !.threads[NewThread].op = "close"],
              NewThread))

CallCloseStreamingIfNeeded == CloseCallWithin(MaxCalls)

CallClearPendingThinkingCard ==
  /\ calls < MaxCalls
  /\ HasIdleThread
  /\ streamCardKitId # None /\ ~streamEverUpdated
  /\ Commit(ClearPendingThinkingCard([World EXCEPT !.calls = @ + 1], NewThread))

CallEnsureThinkingCardIfNeeded ==
  /\ calls < MaxCalls
  /\ HasIdleThread
  /\ streamRenderMode = "card" /\ streamBackend = "none"
  /\ Commit(EnsureThinkingCardIfNeeded([World EXCEPT !.calls = @ + 1], NewThread))

CreateCallReturns ==
  \E t \in Threads, out \in CallOutcomes :
    /\ threads[t].pc = "create"
    /\ Commit(CreateReturns(World, t, out))

BindCallReturns ==
  \E t \in Threads, out \in CallOutcomes :
    /\ threads[t].pc = "bind"
    /\ Commit(BindReturns(World, t, out))

SendCallReturns ==
  \E t \in Threads, out \in CallOutcomes :
    /\ threads[t].pc = "send"
    /\ Commit(SendReturns(World, t, out))

EditCallReturns ==
  \E t \in Threads, out \in CallOutcomes :
    /\ threads[t].pc = "edit"
    /\ Commit(EditReturns(World, t, out))

DeleteCallReturns ==
  \E t \in Threads, out \in CallOutcomes :
    /\ threads[t].pc = "delete"
    /\ Commit(DeleteReturns(World, t, out))

\* the op at the head of cardKitOpQueue starts
MutationStarts ==
  \E t \in Threads :
    /\ threads[t].pc = "mq_wait"
    /\ Head(cardKitOpQueue) = t
    /\ Commit(MutationStart(World, t))

MutationCallReturns ==
  \E t \in Threads, out \in MutationOutcomes :
    /\ threads[t].pc = "mq_call"
    /\ Commit(MutationReturns(World, t, out))

\* sleep(100 * attempt) is over
MutationRetries ==
  \E t \in Threads :
    /\ threads[t].pc = "mq_sleep"
    /\ Commit(Attempt(World, t, threads[t].attempt + 1))

\* sleep(250 * attempt) is over
ElementUpdateRetries ==
  \E t \in Threads :
    /\ threads[t].pc = "mq_isleep"
    /\ Commit(InnerRetry(World, t))

\* sleep(50) is over and no flush is in flight
IdleWaitEnds ==
  \E t \in Threads :
    /\ threads[t].pc = "wi_sleep"
    /\ ~streamInFlight
    /\ Commit(IdleProceed(World, t))

\* queuePartialReply, the timer and the transport: the streaming path alone
StreamSteps ==
  \/ TimerFires
  \/ CreateCallReturns
  \/ BindCallReturns
  \/ SendCallReturns
  \/ EditCallReturns
  \/ MutationStarts
  \/ MutationCallReturns
  \/ MutationRetries
  \/ ElementUpdateRetries

StreamNext == CallQueuePartialReply \/ StreamSteps

Next ==
  \/ AnyQueuePartialReply
  \/ StreamSteps
  \/ CallTryDeliverFinalStream
  \/ CallCloseStreamingIfNeeded
  \/ CallClearPendingThinkingCard
  \/ CallEnsureThinkingCardIfNeeded
  \/ DeleteCallReturns
  \/ IdleWaitEnds

Spec == Init /\ [][Next]_vars

SpecStream == Init /\ [][StreamNext]_vars

\* the snapshots of a session long enough for two rotations
RotationSnapshots == {"a17", "a20", "b32", "c32"}

RotationQueuePartialReply == OfferPartialWithin(RotationSnapshots, MaxRotationPartials)

RotationNext == RotationQueuePartialReply \/ StreamSteps

SpecRotation == Init /\ [][RotationNext]_vars

\* a short session in which closeStreamingIfNeeded or tryDeliverFinalStream
\* is called while an earlier call has not returned
CloseQueuePartialReply == OfferPartialWithin(FacadeSnapshots, MaxClosePartials)

ConcurrentCloseStreamingIfNeeded == CloseCallWithin(MaxCloseCalls)

ConcurrentTryDeliverFinalStream == FinalCallWithin(MaxCloseCalls)

CloseNext ==
  \/ CloseQueuePartialReply
  \/ StreamSteps
  \/ ConcurrentCloseStreamingIfNeeded
  \/ ConcurrentTryDeliverFinalStream
  \/ IdleWaitEnds

SpecClose == Init /\ [][CloseNext]_vars

\* the streaming path and tryDeliverFinalStream
FinalNext ==
  \/ FacadeQueuePartialReply
  \/ StreamSteps
  \/ CallTryDeliverFinalStream
  \/ IdleWaitEnds

SpecFinal == Init /\ [][FinalNext]_vars

\* a session in which the calls of one mutation fail until its retries are
\* exhausted; each snapshot is queued when the flush of the one before is
\* over, and the create and bind calls succeed
RetrySnapshots == {"a17", "b32", "c32"}

RetryQueuePartialReply ==
  /\ ~streamFinalizing
  /\ ~streamTimer
  /\ ~streamInFlight
  /\ OfferPartialWithin(RetrySnapshots, MaxRetryPartials)

\* the calls that fail are calls of one mutation and fail in the same way
RetryOutcomes(t) ==
  {"ok"} \cup
    {out \in {"seq", "transient", "permanent"} :
       /\ failures < MaxRetryFailures
       /\ failures = threads[t].tries - 1
       /\ failures = 0 \/ out = lastReturn.out}

RetryMutationCallReturns ==
  \E t \in Threads :
    /\ threads[t].pc = "mq_call"
    /\ \E out \in RetryOutcomes(t) : Commit(MutationReturns(World, t, out))

RetryCreateSucceeds ==
  \E t \in Threads :
    /\ threads[t].pc = "create"
    /\ Commit(CreateReturns(World, t, "ok"))

RetryBindSucceeds ==
  \E t \in Threads :
    /\ threads[t].pc = "bind"
    /\ Commit(BindReturns(World, t, "ok"))

RetryNext ==
  \/ RetryQueuePartialReply
  \/ TimerFires
  \/ RetryCreateSucceeds
  \/ RetryBindSucceeds
  \/ MutationStarts
  \/ RetryMutationCallReturns
  \/ MutationRetries
  \/ ElementUpdateRetries
  \/ CallTryDeliverFinalStream
  \/ CallClearPendingThinkingCard
  \/ DeleteCallReturns
  \/ IdleWaitEnds

SpecRetry == Init /\ [][RetryNext]_vars

\* the transport completions when no call fails
CreateSucceeds == CreateCallReturns /\ failures' = failures
BindSucceeds == BindCallReturns /\ failures' = failures
SendSucceeds == SendCallReturns /\ failures' = failures
EditSucceeds == EditCallReturns /\ failures' = failures
MutationSucceeds == MutationCallReturns /\ failures' = failures

\* what the timers, the queue and the transport do by themselves
ConvergeSteps ==
  \/ TimerFires
  \/ CreateSucceeds
  \/ BindSucceeds
  \/ SendSucceeds
  \/ EditSucceeds
  \/ MutationStarts
  \/ MutationSucceeds
  \/ IdleWaitEnds

\* the snapshots offered before the finalize, noise among them
ConvergeSnapshots == FacadeSnapshots \cup {"stars"}

ConvergeQueuePartialReply == OfferPartial(ConvergeSnapshots)

ConvergeNext ==
  \/ ConvergeQueuePartialReply
  \/ CallTryDeliverFinalStream
  \/ ConvergeSteps

\* no transport call fails; a timer that is set fires, a call that is
\* outstanding returns, a queued op starts and a sleep ends
SpecConverge == Init /\ [][ConvergeNext]_vars /\ WF_vars(ConvergeSteps)

\* a session of prefix-growing snapshots, each queued when the flush of the
\* one before is over, finalized with the text of the last one; no transport
\* call fails
WindowSnapshots == {"a15", "a17", "a20"}

PrefixGrowing(previous, text) ==
  /\ Len(Chars(previous)) < Len(Chars(text))
  /\ SubSeq(Chars(text), 1, Len(Chars(previous))) = Chars(previous)

WindowQueuePartialReply ==
  /\ partials < MaxWindowPartials
  /\ ~streamFinalizing
  /\ ~streamTimer
  /\ ~streamInFlight
  /\ \E text \in WindowSnapshots :
       /\ PrefixGrowing(lastPartialQueued, text)
       /\ Commit(QueuePartialReply([World EXCEPT !.partials = @ + 1], text))

WindowTryDeliverFinalStream ==
  /\ ~streamFinalizing
  /\ HasIdleThread
  /\ partials > 0
  /\ Commit(TryDeliverFinalStream([World EXCEPT !.calls = @ + 1],
                                  NewThread, lastPartialQueued))

WindowNext ==
  \/ WindowQueuePartialReply
  \/ WindowTryDeliverFinalStream
  \/ ConvergeSteps

SpecWindow == Init /\ [][WindowNext]_vars

\* the strings isNonRegressiveStreamUpdate is called with: a run of a's
\* followed by a few other letters, markdown control characters and blanks
SuffixAlphabet == {"b", "*", " "}
Suffixes == UNION {[1..n -> SuffixAlphabet] : n \in 0..MaxSuffix}
CompareInputs == {Rep("a", n) \o x : n \in 0..MaxRun, x \in Suffixes}

CompareInit ==
  /\ ControllerInit
  /\ streamRenderMode = "card"
  /\ cmpPrevious \in CompareInputs
  /\ cmpCurrent \in CompareInputs
  /\ cmpResult = FALSE
  /\ cmpDone = FALSE

\* isNonRegressiveStreamUpdate(cmpPrevious, cmpCurrent) is called and returns
CallIsNonRegressiveStreamUpdate ==
  /\ ~cmpDone
  /\ Commit([World EXCEPT
               !.cmpResult = IsNonRegressiveStreamUpdate(cmpPrevious, cmpCurrent),
               !.cmpDone = TRUE])

SpecCompare == CompareInit /\ [][CallIsNonRegressiveStreamUpdate]_vars

(***************************************************************************)
(* Properties.                                                             *)
(***************************************************************************)

\* C1: under queuePartialReply calls, timer fires and transport completions
\* alone, at most one transport call of the session is outstanding.
C1_AtMostOneInFlight == Cardinality(Outstanding) <= 1

\* a call is outstanding, a snapshot is pending and the timer has fired and
\* found the flush in flight (it is no longer set)
C1_Witness ==
  /\ Outstanding # {}
  /\ streamInFlight
  /\ streamPendingText # NoText
  /\ ~streamTimer

\* C2: under every facade operation and the timer, at most one transport call
\* (create, bind, content update, summary update, close, delete, send, edit)
\* is outstanding for the session.
C2_AtMostOneOutstanding ==
  \A t, u \in Threads :
    threads[t].pc \in CallPcs /\ threads[u].pc \in CallPcs => t = u

\* the transport call of a mutation is issued by thread t in this step
MutationIssued(t) == threads'[t].pc = "mq_call" /\ threads[t].pc # "mq_call"

\* the transport call of a mutation returns to thread t in this step
MutationReturned(t) == threads[t].pc = "mq_call" /\ threads'[t].pc # "mq_call"

\* per card, the sequence numbers passed never decrease and a number that
\* succeeded is never passed again
SequencePassedInOrder ==
  \A t \in Threads :
    MutationIssued(t) =>
      LET c == threads'[t].card
      IN  /\ threads'[t].seq >= remote[c].seqPassed
          /\ threads'[t].seq > remote[c].seqOk

\* streamSequence is not the attempted value while the call is outstanding
NotCommittedBeforeReturn ==
  \A t \in Threads :
    threads'[t].pc = "mq_call" => streamSequence' < threads'[t].seq

\* C3 as stated: per card the sequence numbers passed to content-update,
\* summary-update and close calls never decrease, those of successful calls
\* strictly increase, and streamSequence takes the attempted value only after
\* the call has returned successfully.
C3_CommitOnlyAfterSuccess ==
  [][ /\ SequencePassedInOrder
      /\ NotCommittedBeforeReturn
      /\ \A t \in Threads :
           /\ MutationReturned(t)
           /\ streamSequence' = threads[t].seq
           /\ streamSequence # threads[t].seq
           => lastReturn'.out = "ok" ]_vars

\* C3 amended: the same, but streamSequence takes the attempted value after
\* the call has returned successfully or has returned a sequence-compare
\* failure that is retried; every other change of streamSequence is the reset
\* to 0 of a rotation or the value a newly bound card starts with.
C3_CommitOnlyAfterReturn ==
  [][ /\ SequencePassedInOrder
      /\ NotCommittedBeforeReturn
      /\ streamSequence' # streamSequence =>
           \/ streamSequence' = 0 /\ streamCardKitId' = None
           \/ \E t \in Threads :
                /\ threads[t].pc = "bind"
                /\ threads'[t].pc # "bind"
                /\ streamSequence' = 0
           \/ \E t \in Threads :
                /\ MutationReturned(t)
                /\ streamSequence' = threads[t].seq
                /\ lastReturn'.out \in {"ok", "seq"} ]_vars

\* a sequence-compare failure has moved streamSequence to the attempted value
\* and the mutation waits for its next attempt
C3_Witness ==
  /\ lastReturn.out = "seq"
  /\ streamSequence = lastReturn.seq
  /\ \E t \in Threads : threads[t].pc = "mq_sleep" /\ threads[t].seq = streamSequence

\* C4: whenever two texts are transmitted consecutively to the same entity
\* (as initial content or by a content update), the later one is a
\* non-regressive update of the earlier one.
C4_TransmissionsNonRegressive ==
  [][ \A c \in Ids :
        /\ remote[c].content # NoText
        /\ remote'[c].content # remote[c].content
        => NonRegressive(remote[c].content, remote'[c].content) ]_vars

\* the step arms the rotation
RotationArmed == ~streamSegmentRotationRequested /\ streamSegmentRotationRequested'

\* the step begins a rotation (flushStream, line 950)
RotationBegins == rotations' = rotations + 1

\* the step is a queuePartialReply whose snapshot the filter rejects
SnapshotRejected == rejectedSinceActive' = rejectedSinceActive + 1

\* C5: a single divergent snapshot never triggers rotation: no rotation is
\* armed or executed when fewer than two snapshots have been rejected since
\* the entity became active or since the last accepted snapshot.
C5_SingleDivergenceNeverRotates ==
  [][ /\ RotationArmed => rejectedSinceActive' >= 2
      /\ RotationBegins => rejectedSinceActive >= 2 ]_vars

C7_ShortSnapshotsNeverArm ==
  [][ /\ RotationArmed =>
           NormalizedLen(lastPartialQueued') >= STREAM_ROTATION_MIN_LENGTH
      /\ RotationBegins => streamSegmentRotationRequested ]_vars

\* with an entity active, a divergent snapshot of 32 characters but normalized
\* length 31 has brought the streak to the confirmation count and the
\* rotation is not armed
C7_Witness ==
  /\ lastPartialQueued = "d31s"
  /\ streamRotationNextText = "d31s"
  /\ streamDivergenceStreak >= STREAM_DIVERGENCE_CONFIRMATION_COUNT
  /\ streamCardKitId # None
  /\ ~streamSegmentRotationRequested
  /\ rotations = 0

\* the snapshots that are short markdown noise: "**"
NoiseSnapshots == {"stars"}

\* C8: a snapshot whose trimmed form has at most 6 characters, all markdown
\* control punctuation, only updates the last-offered bookkeeping: the step
\* that offers it issues no transport call and leaves the pending text, the
\* last accepted text, the divergence streak, the rotation arming and every
\* other field as they were.
C8_NoiseOnlyUpdatesLastOffered ==
  [][ lastPartialQueued' \in NoiseSnapshots /\ lastPartialQueued' # lastPartialQueued =>
        UNCHANGED <<streamRenderMode, streamBackend, streamCardKitId,
                    streamMessageId, streamSequence, streamLastSentText,
                    streamPendingText, streamInFlight, streamTimer,
                    streamEverUpdated, streamClosing, streamClosed,
                    streamClosePromise, cardKitOpQueue,
                    streamLastAcceptedPartial, streamSegmentRotationRequested,
                    streamRotationNextText, streamSegmentAccumulatedText,
                    streamDivergenceStreak, streamFinalizing, threads, remote,
                    finalized, rejectedSinceActive, arms, rotations, nextId>> ]_vars

\* the noise token was offered to an active, open stream whose last accepted
\* snapshot stays the base of the next continuation
C8_Witness ==
  /\ lastPartialQueued \in NoiseSnapshots
  /\ streamBackend = "cardkit"
  /\ streamLastAcceptedPartial = "a17"
  /\ streamSegmentAccumulatedText = "a17"
  /\ ~streamFinalizing /\ ~streamClosing /\ ~streamClosed
  /\ streamDivergenceStreak = 0
  /\ streamPendingText = NoText

\* C9: once streamBackend is "stopped" it stays "stopped", and flushes,
\* rotations and partial updates issue no further transport call, also when a
\* rotation was armed at the time of the failure.
C9_HaltedIsAbsorbing ==
  [][ streamBackend = "stopped" =>
        /\ streamBackend' = "stopped"
        /\ \A t \in Threads :
             threads'[t].pc \in CallPcs => threads'[t].pc = threads[t].pc ]_vars

\* C10: a tryDeliverFinalStream called while the backend is "stopped" returns
\* handled:false, and no transport call is issued during the call.
C10_FinalizeAfterHalt ==
  lastFinal.done /\ lastFinal.halted => ~lastFinal.handled /\ ~lastFinal.tx

\* C11: when the create (or bind) of the very first snapshot fails, the
\* backend becomes "stopped" and no card or message id is recorded, and a
\* tryDeliverFinalStream called later returns handled:false.
C11_FirstCreateFailureFallsBack ==
  /\ [][ ~firstCreateFailed /\ firstCreateFailed' =>
           /\ streamBackend' = "stopped"
           /\ streamCardKitId' = None
           /\ streamMessageId' = None ]_vars
  /\ [](lastFinal.done /\ lastFinal.late => ~lastFinal.handled)

\* the final text the claim describes, for accumulated text acc and argument text
SelectedFinalText(acc, text) ==
  IF acc # NoText /\ ~NonRegressive(acc, text) THEN acc ELSE text

\* thread t issues a transport call in this step
CallIssued(t) == threads'[t].pc \in CallPcs /\ threads'[t].pc # threads[t].pc

\* C12: the text tryDeliverFinalStream(text) transmits and summarizes is
\* streamSegmentAccumulatedText when that is not empty and text is not a
\* non-regressive update of it, and text otherwise; so the final rendering is
\* never a regression of the accumulated segment text.
C12_FinalTextSelection ==
  /\ [](lastFinal.done /\ lastFinal.handled =>
          /\ lastFinal.ftext =
               SelectedFinalText(streamSegmentAccumulatedText, lastFinal.arg)
          /\ NonRegressive(streamSegmentAccumulatedText, lastFinal.ftext))
  /\ [][ \A t \in Threads :
           /\ CallIssued(t)
           /\ threads'[t].site = "final"
           /\ threads'[t].pc \in {"create", "send", "edit"} \/ threads'[t].kind = "update"
           => threads'[t].text =
                SelectedFinalText(streamSegmentAccumulatedText', threads'[t].arg) ]_vars

\* a finalize has delivered the accumulated text of the segment in place of
\* its own, regressive, argument
C12_Witness ==
  /\ lastFinal.done
  /\ lastFinal.handled
  /\ lastFinal.ftext # lastFinal.arg
  /\ lastFinal.ftext = streamSegmentAccumulatedText
  /\ remote[lastFinal.messageId].content = lastFinal.ftext

\* tryDeliverFinalStream has returned handled:true with the id of the active
\* entity, whose content is the selected final text
FinalDelivered ==
  /\ lastFinal.done
  /\ lastFinal.handled
  /\ streamMessageId # None
  /\ lastFinal.messageId = streamMessageId
  /\ remote[streamMessageId].content = lastFinal.ftext
  /\ lastFinal.ftext = SelectedFinalText(streamSegmentAccumulatedText, lastFinal.arg)

\* C13: when no transport call fails and tryDeliverFinalStream(text) is called
\* after at least one snapshot that is not noise was queued, the call
\* eventually returns handled:true with the message id of the active entity,
\* whose last transmitted content is the selected final text.
C13_Convergence ==
  (streamFinalizing /\ queuedReal) ~> FinalDelivered

\* a finalize called after a rotation has delivered
C13_Witness ==
  /\ FinalDelivered
  /\ queuedReal
  /\ failures = 0
  /\ rotations > 0

\* the rotations that began with a message id and a text that is not blank
NotifiableRotations ==
  SelectSeq(begun, LAMBDA b : b.messageId # None /\ ~TrimmedEmptyTable[b.content])

\* C14: onSegmentFinalized is invoked at most once per message id, in rotation
\* order, each invocation carrying the message id that was active when its
\* rotation began and the accumulated text of the segment at that moment.
C14_SegmentFinalizedOncePerRotation ==
  /\ [](/\ \A i, j \in 1..Len(finalized) :
             finalized[i].messageId = finalized[j].messageId => i = j
        /\ Len(finalized) <= Len(NotifiableRotations)
        /\ Len(NotifiableRotations) <= Len(finalized) + 1
        /\ \A i \in 1..Len(finalized) : finalized[i] = NotifiableRotations[i])
  /\ [][ /\ RotationBegins =>
              begun' = Append(begun, [messageId |-> streamMessageId,
                                      content |-> streamSegmentAccumulatedText])
         /\ Len(finalized') > Len(finalized) =>
              /\ finalized' = Append(finalized, NotifiableRotations'[Len(finalized')])
              /\ Len(begun') = rotations' ]_vars

\* two rotations have been notified, of two entities
C14_Witness ==
  /\ Len(finalized) = 2
  /\ finalized[1].messageId # finalized[2].messageId
  /\ finalized[1].content = "a17"

\* the cards a rotation has begun to retire and that are no longer active
RetiredCards ==
  {begun[i].messageId : i \in 1..Len(begun)} \ {None, streamCardKitId}

\* C15: a queued mutation targeting entity E issues no transport call, at its
\* start or at any retry, when the active entity is not E; so after a rotation
\* has retired an entity no content update, summary update or close targets it.
C15_StaleMutationGuard ==
  [][ \A t \in Threads :
        MutationIssued(t) =>
          /\ streamCardKitId = threads'[t].card
          /\ threads'[t].card \notin RetiredCards ]_vars

\* C16: no facade operation propagates a transport error to its caller:
\* whatever fails and however the calls interleave, each of them completes
\* normally and no promise it returned is rejected.
C16_NoErrorPropagates == ~threw

\* a transport call of a mutation of one of these kinds fails in this step
MutationFails(kinds) ==
  /\ failures' = failures + 1
  /\ \E u \in Threads :
       MutationReturned(u) /\ threads[u].pc = "mq_call" /\ threads[u].kind \in kinds

\* deleteMessageFeishu fails in this step
DeleteFails ==
  /\ failures' = failures + 1
  /\ \E u \in Threads : threads[u].pc = "delete" /\ threads'[u].pc # "delete"

\* a failed summary update, close, placeholder clear or delete leaves
\* streamBackend as it was
BestEffortFailureKeepsBackend ==
  [][ MutationFails({"summary", "close", "clear"}) \/ DeleteFails =>
        streamBackend' = streamBackend ]_vars

\* a tryDeliverFinalStream that ends in a step where a summary update or a
\* close fails returns handled:true
BestEffortFailureKeepsHandled ==
  [][ MutationFails({"summary", "close"}) =>
        \A t \in Threads :
          threads[t].op = "final" /\ threads'[t].op = "idle" =>
            /\ finalRejected' = finalRejected
            /\ lastFinal'.done
            /\ lastFinal'.handled ]_vars

\* C17: a failure of the summary update, the close call, the placeholder clear
\* or the message delete leaves streamBackend unchanged, and a failed summary
\* update or close does not change the result of tryDeliverFinalStream from
\* handled:true.
C17_BestEffortFailures ==
  BestEffortFailureKeepsBackend /\ BestEffortFailureKeepsHandled

\* C18: a clearPendingThinkingCard invoked while a card exists that never
\* received a content update (streamEverUpdated false) attempts the
\* clear-to-placeholder call, and a delete of the wrapping message when the
\* clear does not succeed, whatever the backend state: it returns only from a
\* clear call that succeeded or from a delete call.
C18_AbandonedEntityCleanup ==
  [][ \A t \in Threads :
        threads[t].op = "clear" /\ threads'[t].op = "idle" =>
          \/ threads[t].pc = "mq_call" /\ failures' = failures
          \/ threads[t].pc = "delete" ]_vars

\* thread t issues createCardEntityFeishu in this step
CreateIssued(t) == threads'[t].pc = "create" /\ threads[t].pc # "create"

\* C19: in card mode, N prefix-growing snapshots each flushed before the next
\* is queued, with no transport failure, give one createCardEntityFeishu call
\* carrying the first snapshot, then N-1 content updates of that card carrying
\* the later snapshots in order with sequence numbers 1 .. N-1; finalizing with
\* the text of the last snapshot adds no content update (the summary update
\* and the close take the sequence numbers N and N+1).
C19_OneCreateThenUpdates ==
  /\ [][ streamRenderMode = "card" =>
           \A t \in Threads :
             /\ CreateIssued(t) =>
                  /\ nextId = 1
                  /\ partials = 1
                  /\ threads'[t].text = lastPartialQueued
                  /\ \A u \in Threads \ {t} : threads[u].pc # "create"
             /\ MutationIssued(t) =>
                  /\ threads'[t].card = 1
                  /\ threads'[t].seq = remote[1].seqPassed + 1
                  /\ threads'[t].kind = "update" =>
                       /\ threads'[t].seq = partials - 1
                       /\ threads'[t].text = lastPartialQueued ]_vars
  /\ [](streamRenderMode = "card" /\ lastFinal.done =>
          /\ lastFinal.handled
          /\ nextId = 2
          /\ remote[1].content = lastPartialQueued
          /\ remote[1].seqPassed = partials + 1)

\* three snapshots were flushed one by one and the session finalized: one
\* create, the updates 1 and 2, the summary update 3 and the close 4
C19_Witness ==
  /\ streamRenderMode = "card"
  /\ lastFinal.done
  /\ partials = 3
  /\ remote[1].seqOk = 4
  /\ remote[1].content = "a20"

\* the reference predicate: prefix, normalization and common prefix by what
\* they mean
IsPrefixOf(p, s) == \E k \in 0..Len(s) : SubSeq(s, 1, k) = p

\* s without its trailing whitespace and markdown control characters
RefNormalized(s) ==
  LET keep == {k \in 1..Len(s) : s[k] \notin WhiteSpace \cup MarkdownControl}
      last == IF keep = {} THEN 0 ELSE CHOOSE k \in keep : \A j \in keep : j <= k
  IN  SubSeq(s, 1, last)

\* the number of leading positions where a and b agree
RefCommonPrefixLen(a, b) ==
  CHOOSE n \in 0..Min(Len(a), Len(b)) :
    /\ \A i \in 1..n : a[i] = b[i]
    /\ n < Min(Len(a), Len(b)) => a[n + 1] # b[n + 1]

RefNonRegressive(previous, candidate) ==
  LET np == RefNormalized(previous)
      nc == RefNormalized(candidate)
  IN  IF previous = <<>> \/ IsPrefixOf(previous, candidate) THEN TRUE
      ELSE IF IsPrefixOf(np, nc) THEN TRUE
      ELSE IF Len(nc) * 100 < 85 * Len(np) THEN FALSE
      ELSE RefCommonPrefixLen(np, nc) * 100 >= 85 * Len(np)

\* the fields of the controller
controllerVars ==
  << streamRenderMode, streamBackend, streamCardKitId, streamMessageId,
     streamSequence, streamLastSentText, streamPendingText, streamInFlight,
     streamTimer, streamEverUpdated, streamClosing, streamClosed,
     streamClosePromise, cardKitOpQueue, lastPartialQueued,
     streamLastAcceptedPartial, streamSegmentRotationRequested,
     streamRotationNextText, streamSegmentAccumulatedText,
     streamDivergenceStreak, streamFinalizing >>

\* C20: isNonRegressiveStreamUpdate(previous, candidate) returns what the
\* reference predicate gives (true if previous is empty or a prefix of the
\* candidate; else true if the normalized previous is a prefix of the
\* normalized candidate; else false if the ratio of the normalized lengths is
\* below 0.85; else true exactly when the common prefix is at least 0.85 of
\* the normalized previous), and the call changes no field of the controller.
C20_MatchesReferencePredicate ==
  /\ [](cmpDone => cmpResult = RefNonRegressive(cmpPrevious, cmpCurrent))
  /\ [][controllerVars' = controllerVars]_vars

\* the call returned true for a candidate whose common prefix with previous is
\* exactly 0.85 of it (17 of 20 characters)
C20_Witness ==
  /\ cmpDone
  /\ cmpResult
  /\ Len(RefNormalized(cmpPrevious)) = 20
  /\ ~IsPrefixOf(RefNormalized(cmpPrevious), RefNormalized(cmpCurrent))
  /\ RefCommonPrefixLen(RefNormalized(cmpPrevious), RefNormalized(cmpCurrent)) = 17

\* a transport call of thread t that transmits a text returns in this step
\* without failing
TransmissionSucceeded(t) ==
  /\ failures' = failures
  /\ threads'[t].pc # threads[t].pc
  /\ \/ threads[t].pc \in {"bind", "send", "edit"}
     \/ threads[t].pc = "mq_call" /\ threads[t].kind = "update"

\* C21: streamLastSentText is assigned a text only after a transport call
\* transmitting exactly that text has returned successfully: not when the
\* entity creation fails, when the backend is stopped, or when a queued
\* mutation is skipped without a transport call.
C21_LastSentOnlyAfterSuccess ==
  [][ streamLastSentText' # streamLastSentText /\ streamLastSentText' # NoText =>
        \E t \in Threads :
          /\ TransmissionSucceeded(t)
          /\ threads[t].text = streamLastSentText' ]_vars

\* the step is a queuePartialReply whose snapshot is accepted: it is not
\* ignored, not noise, and the filter passes it
SnapshotAccepted ==
  /\ partials' = partials + 1
  /\ lastPartialQueued' # lastPartialQueued
  /\ ~streamFinalizing /\ streamBackend # "stopped" /\ ~streamClosing /\ ~streamClosed
  /\ lastPartialQueued' \notin NoiseSnapshots
  /\ NonRegressive(streamLastAcceptedPartial, lastPartialQueued')

\* C22: an accepted snapshot resets streamDivergenceStreak to 0 and clears
\* the rotation arming: after it streamSegmentRotationRequested is false, and
\* a flush rotates only when divergent snapshots have armed it since.
C22_AcceptClearsArming ==
  [][ SnapshotAccepted =>
        /\ streamDivergenceStreak' = 0
        /\ ~streamSegmentRotationRequested' ]_vars

\* the step is a queuePartialReply whose snapshot reaches the filter and is
\* rejected by it
FilterRejects ==
  /\ partials' = partials + 1
  /\ lastPartialQueued' # lastPartialQueued
  /\ ~streamFinalizing /\ streamBackend # "stopped" /\ ~streamClosing /\ ~streamClosed
  /\ lastPartialQueued' \notin NoiseSnapshots
  /\ ~NonRegressive(streamLastAcceptedPartial, lastPartialQueued')

\* C23: the divergence policy applies only while an entity is active: a
\* candidate the filter rejects while no entity and no message is active
\* becomes the pending and last-accepted text, and streamDivergenceStreak is
\* not incremented.
C23_RejectWithoutEntityAccepts ==
  [][ FilterRejects /\ streamMessageId = None /\ streamCardKitId = None =>
        /\ streamPendingText' = lastPartialQueued'
        /\ streamLastAcceptedPartial' = lastPartialQueued'
        /\ streamDivergenceStreak' = streamDivergenceStreak ]_vars

ReplacementCreateIssued(t) ==
  /\ threads'[t].rot
  /\ threads'[t].site = "flush"
  /\ threads'[t].pc \in {"create", "send"}
  /\ threads'[t].pc # threads[t].pc

\* the entities rotations have retired, after the step
RetiredEntities ==
  {begun'[i].messageId : i \in 1..Len(begun')} \ {None, streamMessageId'}

\* C25: in a rotation no call on the outgoing entity is outstanding when the
\* create call of the replacement is issued (the close of an outgoing card
\* has been called and has returned), and from then on no transport call is
\* issued on the outgoing entity.
C25_RotationOrdering ==
  [][ \A t \in Threads :
        /\ ReplacementCreateIssued(t) /\ threads'[t].pmsg # None =>
             /\ \A u \in Threads \ {t} :
                  ~(/\ threads'[u].pc \in CallPcs \ {"create", "send"}
                    /\ threads'[u].card = threads'[t].pmsg)
             /\ threads'[t].rcard # None /\ failures' = 0 =>
                  /\ remote'[threads'[t].rcard].closeCalls >= 1
                  /\ remote'[threads'[t].rcard].closeOks >= 1
        /\ CallIssued(t) /\ threads'[t].pc \in CallPcs \ {"create", "send"} =>
             threads'[t].card \notin RetiredEntities ]_vars

\* thread t completes a flush that performed a rotation
RotationCompletes(t) == threads[t].rot /\ ~threads'[t].rot

\* C26: a rotation that finds the accumulated segment text different from the
\* last-sent text calls or queues one content update carrying it for the
\* outgoing entity, before the close; so, with no transport failure, the close is issued on an
\* entity whose content is the accumulated text, the notification reports the
\* last content of the retired entity, and the accepted snapshot that was
\* pending when the rotation began has been transmitted when it completes.
C26_OutgoingFlushedFirst ==
  [][ /\ RotationBegins /\ failures' = 0
         /\ streamSegmentAccumulatedText # NoText
         /\ streamSegmentAccumulatedText # streamLastSentText =>
           \E t \in Threads :
             /\ threads'[t].site = "rot"
             /\ threads'[t].card = streamMessageId
             /\ threads'[t].text = streamSegmentAccumulatedText
             /\ \/ threads'[t].pc = "edit"
                \/ threads'[t].pc = "mq_wait" /\ threads'[t].kind = "update"
      /\ \A t \in Threads :
           /\ MutationIssued(t) /\ threads'[t].kind = "rotclose" /\ failures' = 0 =>
                remote'[threads'[t].card].content = threads'[t].ptext
           /\ RotationCompletes(t) /\ failures' = 0 /\ threads[t].pending # NoText =>
                \/ /\ threads[t].pmsg # None
                   /\ remote'[threads[t].pmsg].content = threads[t].pending
                \/ /\ streamMessageId' # None
                   /\ remote'[streamMessageId'].content = threads[t].pending
      /\ Len(finalized') > Len(finalized) /\ failures' = 0 =>
           LET n == finalized'[Len(finalized')]
           IN  remote'[n.messageId].content = n.content ]_vars

\* C27: a rotation has reset every per-entity session field when it issues
\* the create call of the new entity: the entity id and the message id are
\* cleared, streamSequence and streamDivergenceStreak are 0, the last-sent
\* text is empty, streamClosing and streamClosed are false, the rotation
\* request is cleared, and the last-accepted and accumulated texts are the
\* next text of the rotation.
C27_RotationResetsSession ==
  [][ \A t \in Threads :
        ReplacementCreateIssued(t) =>
          /\ streamCardKitId' = None
          /\ streamMessageId' = None
          /\ streamSequence' = 0
          /\ streamDivergenceStreak' = 0
          /\ streamLastSentText' = NoText
          /\ ~streamClosing'
          /\ ~streamClosed'
          /\ ~streamSegmentRotationRequested'
          /\ streamLastAcceptedPartial' = threads'[t].next
          /\ streamSegmentAccumulatedText' = threads'[t].next ]_vars

\* the step is a call of queuePartialReply
PartialQueued == partials' = partials + 1

\* C28: queuePartialReply is fire-and-forget: it issues no transport call,
\* starts no flush and no rotation, and leaves streamBackend, the entity and
\* message ids and streamSequence unchanged; a snapshot that arms the rotation
\* sets the request with the timer set, so the rotation runs in a later flush.
C28_QueueIsFireAndForget ==
  [][ PartialQueued =>
        /\ threads' = threads
        /\ cardKitOpQueue' = cardKitOpQueue
        /\ remote' = remote
        /\ rotations' = rotations
        /\ streamInFlight' = streamInFlight
        /\ streamBackend' = streamBackend
        /\ streamCardKitId' = streamCardKitId
        /\ streamMessageId' = streamMessageId
        /\ streamSequence' = streamSequence
        /\ RotationArmed => streamTimer' ]_vars

\* a snapshot has armed the rotation of an active entity and no rotation has
\* begun yet
C28_Witness ==
  /\ streamSegmentRotationRequested
  /\ streamTimer
  /\ streamMessageId # None
  /\ rotations = 0
  /\ arms = 1

\* C29: at most one timer is armed, and it is the one streamTimer holds;
\* streamPendingText changes only when a snapshot is accepted, to that
\* snapshot, and when a flush that finds none in flight takes it, to empty
\* (so it is the latest accepted snapshot not yet flushed); and whenever
\* streamPendingText is not empty or the rotation is requested, the timer is
\* set or a flush is in flight.
C29_ThrottleScheduler ==
  /\ [](/\ timersArmed = IF streamTimer THEN 1 ELSE 0
        /\ streamPendingText # NoText \/ streamSegmentRotationRequested =>
             streamTimer \/ streamInFlight)
  /\ [][ /\ SnapshotAccepted => streamPendingText' = lastPartialQueued'
         /\ streamPendingText' # streamPendingText =>
              \/ SnapshotAccepted
              \/ /\ streamPendingText' = NoText
                 /\ ~PartialQueued
                 /\ ~streamInFlight ]_vars

\* a snapshot accepted while a flush is in flight waits with the timer set
C29_Witness ==
  /\ streamInFlight
  /\ streamTimer
  /\ timersArmed = 1
  /\ streamPendingText = "a20"
  /\ Outstanding # {}

\* the threads inside the body of flushStream
Flushing == {t \in Threads : threads[t].inFlush}

\* C30: when waitForStreamIdle returns inside tryDeliverFinalStream no flush
\* is in flight, no timer is set, streamPendingText is empty and no rotation
\* is requested; at most one flushStream body runs at a time, and a flush
\* invoked by the timer while one is in flight delivers nothing.
C30_IdleWaitPostcondition ==
  /\ [](/\ Cardinality(Flushing) <= 1
        /\ Flushing # {} => streamInFlight)
  /\ [][ /\ idleReturns' = idleReturns + 1 =>
              /\ ~streamInFlight'
              /\ ~streamTimer'
              /\ streamPendingText' = NoText
              /\ ~streamSegmentRotationRequested'
         /\ streamTimer /\ ~streamTimer' /\ streamInFlight /\ streamInFlight' =>
              /\ threads' = threads
              /\ remote' = remote
              /\ cardKitOpQueue' = cardKitOpQueue
              /\ streamPendingText' = streamPendingText
              /\ streamLastSentText' = streamLastSentText ]_vars

\* two snapshots were queued and the second was sent; the idle wait of
\* tryDeliverFinalStream has returned and its final update is outstanding
C30_Witness ==
  /\ idleReturns = 1
  /\ \E t \in Threads :
       /\ threads[t].op = "final"
       /\ threads[t].pc = "mq_call"
       /\ threads[t].site = "final"
  /\ streamLastSentText = "a20"
  /\ lastPartialQueued = "a20"
  /\ partials = 2

\* the threads inside runCardKitMutation once its op has started
Mutating == {t \in Threads : threads[t].pc \in {"mq_call", "mq_sleep", "mq_isleep"}}

\* the attempts the claim allows a mutation of this kind
RetryBudget(kind) == IF kind \in {"clear", "rotclose"} THEN 5 ELSE 8

\* the failing call of thread t that returns in this step was the last one
\* the retry loops allow
BudgetExhausted(t) ==
  /\ MutationReturned(t)
  /\ failures' = failures + 1
  /\ lastReturn'.out \in {"seq", "transient"}
  /\ threads[t].attempt = RetryBudget(threads[t].kind)
  /\ \/ threads[t].kind # "update"
     \/ lastReturn'.out = "seq"
     \/ threads[t].iattempt = STREAM_UPDATE_MAX_RETRIES

\* C31 as stated: a content update, a summary update or a close invokes its
\* transport call at most 8 times and a cleanup clear or a rotation close at
\* most 5 times before it terminates.
C31_RetryBudget ==
  \A t \in Mutating : threads[t].tries <= RetryBudget(threads[t].kind)

\* C31, amended: a summary update or a close invokes its transport call at
\* most 8 times and a cleanup clear or a rotation close at most 5 times; a
\* content update makes at most 8 attempts of at most 3 calls each, 24 calls
\* in all; a call that fails when these are used up ends the mutation, the
\* next op of the queue can start, and for a content update the error reaches
\* sendOrUpdateStreamMessage, which sets the backend to "stopped".
C31_RetryBudgetPerAttempt ==
  /\ [](\A t \in Mutating :
          /\ threads[t].attempt <= RetryBudget(threads[t].kind)
          /\ threads[t].iattempt <= STREAM_UPDATE_MAX_RETRIES
          /\ threads[t].kind # "update" =>
               /\ threads[t].iattempt = 1
               /\ threads[t].tries = threads[t].attempt
          /\ threads[t].kind = "update" =>
               threads[t].tries <=
                 STREAM_UPDATE_MAX_RETRIES * (threads[t].attempt - 1) + threads[t].iattempt)
  /\ [][ \A t \in Threads :
           /\ MutationIssued(t) => threads'[t].tries = threads[t].tries + 1
           /\ BudgetExhausted(t) =>
                /\ t \notin Mutating'
                /\ threads[t].kind = "update" => streamBackend' = "stopped" ]_vars

\* a content update whose 24th call is outstanding
C31_Witness ==
  \E t \in Threads :
    /\ threads[t].pc = "mq_call"
    /\ threads[t].kind = "update"
    /\ threads[t].tries = STREAM_UPDATE_MAX_RETRIES * STREAM_SEQUENCE_MAX_RETRIES

\* the call of thread t's mutation that returns in this step fails, neither
\* with a sequence-compare error nor with a transient one
PermanentFailure(t) ==
  /\ MutationReturned(t)
  /\ failures' = failures + 1
  /\ lastReturn'.out = "permanent"

C33_SequenceFastForward ==
  [][ \A t \in Threads :
        /\ MutationReturned(t) /\ threads'[t].pc = "mq_sleep" /\ lastReturn'.out = "seq" =>
             streamSequence' = threads[t].seq
        /\ MutationReturned(t) /\ threads'[t].pc \in {"mq_sleep", "mq_isleep"}
                               /\ lastReturn'.out = "transient" =>
             streamSequence' = streamSequence
        /\ threads[t].pc = "mq_sleep" /\ threads'[t].pc = "mq_call" =>
             /\ lastReturn.card = threads[t].card /\ lastReturn.seq = threads[t].seq
             /\ lastReturn.out \in {"seq", "transient"}
             /\ threads'[t].seq =
                  IF lastReturn.out = "seq" THEN threads[t].seq + 1 ELSE threads[t].seq
        /\ threads[t].pc = "mq_isleep" /\ threads'[t].pc = "mq_call" =>
             /\ lastReturn.out = "transient"
             /\ threads'[t].seq = threads[t].seq ]_vars

\* the second attempt of a mutation after a sequence-compare error, carrying
\* the attempted value plus 1, while another operation is in progress
C33_Witness ==
  \E t \in Threads :
    /\ threads[t].pc = "mq_call"
    /\ threads[t].attempt = 2
    /\ lastReturn.out = "seq"
    /\ threads[t].seq = lastReturn.seq + 1
    /\ streamSequence = lastReturn.seq
    /\ \E u \in Threads \ {t} : threads[u].op # "idle"

\* tryDeliverFinalStream returns handled:true in this step
FinalHandled ==
  /\ lastFinal' # lastFinal
  /\ lastFinal'.done
  /\ lastFinal'.handled

\* C34: when tryDeliverFinalStream returns handled:true, a message id is
\* returned and the content last transmitted with success to that entity (as
\* initial content, content update or edit) is the selected final text; so
\* handled:true is not returned when the transmission of the final text was
\* skipped because the entity was closing or closed.
C34_HandledMeansDelivered ==
  [][ FinalHandled =>
        /\ lastFinal'.messageId # None
        /\ remote'[lastFinal'.messageId].content = lastFinal'.ftext ]_vars

\* create-entity calls that have succeeded (the remote side hands out the ids
\* 1, 2, ... and a plain message takes an id in raw mode only)
EntitiesCreated == nextId - 1

\* C35: in card mode the create-entity calls that have succeeded are at most 1
\* plus the rotations executed, however ensureThinkingCardIfNeeded and the
\* first flush interleave, and the entity recorded in streamCardKitId is never
\* replaced by another one: it is only cleared, by a rotation.
C35_CreationsMatchSegments ==
  /\ [](streamRenderMode = "card" => EntitiesCreated <= 1 + rotations)
  /\ [][ streamCardKitId # None /\ streamCardKitId' # streamCardKitId =>
           streamCardKitId' = None /\ rotations' > 0 ]_vars

\* the create or bind call of ensureThinkingCardIfNeeded fails in this step
EnsureFails(t) ==
  /\ threads[t].op = "ensure"
  /\ threads[t].pc \in {"create", "bind"}
  /\ threads'[t].pc # threads[t].pc
  /\ failures' = failures + 1

\* C36: ensureThinkingCardIfNeeded issues its create call only in card mode
\* with streamBackend = "none"; when its create or bind call fails the call
\* returns and no field of the controller has changed (streamBackend is
\* "none" and no id is recorded when the call is the only operation called
\* so far); and a flush that starts
\* in card mode with streamBackend = "none", pending text and no rotation
\* request issues a create call with that text, so the first accepted snapshot
\* tries the creation again.
C36_EagerPlaceholderBestEffort ==
  [][ \A t \in Threads :
        /\ threads[t].op = "idle" /\ threads'[t].op = "ensure" =>
             /\ streamRenderMode = "card" /\ streamBackend = "none"
             /\ threads'[t].pc = "create"
             /\ controllerVars' = controllerVars
        /\ EnsureFails(t) =>
             /\ controllerVars' = controllerVars
             /\ threads'[t] = IdleThread
             /\ threw' = threw
             /\ partials = 0 /\ calls = 1 =>
                  /\ streamBackend' = "none"
                  /\ streamCardKitId' = None /\ streamMessageId' = None
        /\ ( /\ threads[t].op = "idle" /\ threads'[t].op = "flush"
             /\ streamRenderMode = "card" /\ streamBackend = "none"
             /\ streamPendingText # NoText /\ ~streamSegmentRotationRequested ) =>
             /\ threads'[t].pc = "create"
             /\ threads'[t].text = streamPendingText ]_vars

\* the create call of ensureThinkingCardIfNeeded has failed, nothing is
\* recorded, and the flush of the first snapshot has issued a create call
C36_Witness ==
  /\ failures = 1 /\ nextId = 1 /\ rotations = 0 /\ calls = 1
  /\ streamBackend = "none" /\ streamCardKitId = None /\ streamMessageId = None
  /\ \E t \in Threads :
       threads[t].op = "flush" /\ threads[t].pc = "create" /\ threads[t].text = "a17"

\* the threads whose close mutation (of closeStreamingIfNeeded) is queued or
\* running
Closers ==
  {t \in Threads : threads[t].kind = "close"
                   /\ threads[t].pc \in {"mq_wait", "mq_call", "mq_sleep"}}

\* closeStreamingIfNeeded, called by the caller or by tryDeliverFinalStream,
\* returns in this step
CloseReturns(t) ==
  /\ threads[t].op \in {"close", "final"}
  /\ threads[t].inClose \/ threads[t].pc = "cp_wait"
  /\ threads'[t].op = "idle"

\* C37: for each entity at most one close call succeeds; no close call of
\* closeStreamingIfNeeded is issued once streamClosed is set; calls that are
\* in progress together share one close mutation; and when no transport call
\* has failed, the active card entity is closed when closeStreamingIfNeeded
\* returns.
C37_CloseIdempotentAndShared ==
  /\ [](\A c \in Ids : remote[c].closeOks <= 1)
  /\ [](Cardinality(Closers) <= 1)
  /\ [][ \A t \in Threads :
           /\ MutationIssued(t) /\ threads'[t].kind = "close" => ~streamClosed
           /\ CloseReturns(t) /\ failures' = 0
              /\ streamBackend' = "cardkit" /\ streamCardKitId' # None => streamClosed' ]_vars

\* C38: once a close call on an entity has succeeded, no content-update call
\* (of a flush, a rotation, a finalize or the placeholder clear) and no
\* summary-update call is issued for that entity, first attempts and retries
\* alike; and while streamClosed is set no such call is issued at all.
C38_NoMutationAfterClose ==
  [][ \A t \in Threads :
        MutationIssued(t) /\ threads'[t].kind \in {"update", "summary", "clear"} =>
          /\ remote[threads'[t].card].closeOks = 0
          /\ ~streamClosed ]_vars

\* the entity was closed by closeStreamingIfNeeded and a later finalize, whose
\* content update and summary update were skipped, has returned
C38_Witness ==
  /\ streamClosed
  /\ streamCardKitId # None
  /\ remote[streamCardKitId].closeOks = 1
  /\ lastFinal.done
  /\ lastFinal.ftext # remote[streamCardKitId].content

\* C39: a queuePartialReply called when tryDeliverFinalStream has begun or
\* the backend is stopped, closing or closed records the text as last offered
\* and changes nothing else: not the pending text, the last accepted text, the
\* accumulated text, the divergence streak, the rotation request, the next
\* segment text or the timer, and no transport call is issued; and in every
\* state a queuePartialReply with the text offered last changes nothing at all.
C39_IgnoredPartialsChangeNothing ==
  /\ [][ ( /\ partials' = partials + 1
           /\ streamFinalizing \/ streamBackend = "stopped" \/ streamClosing \/ streamClosed )
         => /\ lastPartialQueued' # lastPartialQueued
            /\ UNCHANGED <<streamRenderMode, streamBackend, streamCardKitId,
                           streamMessageId, streamSequence, streamLastSentText,
                           streamPendingText, streamInFlight, streamTimer,
                           streamEverUpdated, streamClosing, streamClosed,
                           streamClosePromise, cardKitOpQueue,
                           streamLastAcceptedPartial, streamSegmentRotationRequested,
                           streamRotationNextText, streamSegmentAccumulatedText,
                           streamDivergenceStreak, streamFinalizing, threads, remote,
                           finalized, timersArmed, rotations, nextId>> ]_vars
  /\ [](lastPartialQueued # NoText =>
          QueuePartialReply(World, lastPartialQueued) = World)

\* the only snapshot of the session was offered after tryDeliverFinalStream
\* had begun: it is the last offered text and nothing was accepted or queued
C39_Witness ==
  /\ streamFinalizing
  /\ partials = 1
  /\ lastPartialQueued = "a17"
  /\ streamLastAcceptedPartial = NoText
  /\ streamSegmentAccumulatedText = NoText
  /\ streamPendingText = NoText
  /\ ~streamTimer

\* C40: in every state streamBackend = "none" implies that streamCardKitId
\* and streamMessageId are null, and streamBackend = "cardkit" implies that
\* streamCardKitId is set; streamCardKitId takes a value only in the step in
\* which the bind call for the entity with that id, created before, returns
\* with success, and becomes null only in the reset of a rotation.
C40_IdentifierConsistency ==
  /\ [](/\ streamBackend = "none" =>
             streamCardKitId = None /\ streamMessageId = None
        /\ streamBackend = "cardkit" => streamCardKitId # None)
  /\ [][ /\ streamCardKitId' # streamCardKitId /\ streamCardKitId' # None =>
              /\ failures' = failures
              /\ streamCardKitId' < nextId
              /\ \E t \in Threads :
                   /\ threads[t].pc = "bind"
                   /\ threads'[t].pc # "bind"
                   /\ threads[t].card = streamCardKitId'
         /\ streamCardKitId # None /\ streamCardKitId' = None =>
              /\ rotations' > 0
              /\ streamBackend' = "none"
              /\ \/ rotations' = rotations + 1
                 \/ \E t \in Threads : threads[t].rot /\ threads[t].inFlush ]_vars

\* after a rotation the ids of the retired entity have been cleared and the
\* create call of the next entity has succeeded, its bind call is outstanding
C40_Witness ==
  /\ rotations = 1
  /\ streamBackend = "none"
  /\ streamCardKitId = None
  /\ nextId = 3
  /\ \E t \in Threads : threads[t].pc = "bind" /\ threads[t].card = 2

====
